---- MODULE Spec2Model ----
(***************************************************************************)
(* The apachelog package: a log-format string is compiled into one regular *)
(* expression and a list of field names (parser._parse_format), and each   *)
(* log line is matched against it and returned as a dictionary             *)
(* (parser.parse).                                                         *)
(*                                                                         *)
(* A Python string is modelled as a sequence of one-character strings, so  *)
(* that slicing, stripping, splitting and regular-expression matching are  *)
(* computed character by character.                                        *)
(***************************************************************************)
EXTENDS Integers, Sequences, FiniteSets, TLC

(***************************************************************************)
(* Strings.                                                                *)
(***************************************************************************)

\* A string literal as a sequence of one-character strings.
Chars(s) == [i \in 1..Len(s) |-> SubSeq(s, i, i)]

\* Python's None.  No string equals it: its element is not one character.
None == <<"None">>

\* The characters str.strip() removes and \S excludes.
Whitespace == {" ", "\t", "\n", "\r", "\f"}

\* s[i:] of Python, for a 1-based i.
From(s, i) == SubSeq(s, i, Len(s))

\* s.startswith(p)
StartsWith(s, p) == Len(s) >= Len(p) /\ SubSeq(s, 1, Len(p)) = p

\* p occurs in s at the 1-based position i.
OccursAt(s, p, i) == i >= 1 /\ i + Len(p) - 1 <= Len(s) /\ SubSeq(s, i, i + Len(p) - 1) = p

\* str.strip(): drop leading and trailing whitespace.
Strip(s) ==
    LET keep == {i \in 1..Len(s) : s[i] \notin Whitespace}
    IN  IF keep = {} THEN <<>>
        ELSE SubSeq(s, CHOOSE i \in keep : \A j \in keep : i <= j,
                       CHOOSE i \in keep : \A j \in keep : i >= j)

\* The positions of s, in order, that hold a character of S.
Positions(s, S) ==
    LET Hit(i) == s[i] \in S
    IN  SelectSeq([i \in 1..Len(s) |-> i], Hit)

\* str.split(' '): the pieces between single spaces (one piece for '').
Split(s) ==
    LET sp == Positions(s, {" "})
    IN  [k \in 1..(Len(sp) + 1) |->
            SubSeq(s, IF k = 1 THEN 1 ELSE sp[k - 1] + 1,
                      IF k > Len(sp) THEN Len(s) ELSE sp[k] - 1)]

\* ' '.join(parts[a..b])
RECURSIVE JoinRange(_, _, _)
JoinRange(parts, a, b) ==
    IF a > b THEN <<>>
    ELSE IF a = b THEN parts[a]
    ELSE LET m == (a + b) \div 2
         IN  JoinRange(parts, a, m) \o <<" ">> \o JoinRange(parts, m + 1, b)

\* ' '.join(parts)
Join(parts) == JoinRange(parts, 1, Len(parts))

\* str.lower() on the letters the parser looks for.
Lower(c) ==
    CASE c = "R" -> "r" [] c = "E" -> "e" [] c = "F" -> "f" [] c = "U" -> "u"
      [] c = "S" -> "s" [] c = "A" -> "a" [] c = "G" -> "g" [] c = "N" -> "n"
      [] c = "T" -> "t" [] OTHER -> c

LowerStr(s) == [i \in 1..Len(s) |-> Lower(s[i])]

(***************************************************************************)
(* Regular expressions: re.compile and match, for the syntax the parser    *)
(* writes (literals, escapes, \S, '.', character classes, groups,          *)
(* (?:...), '*', '+', '+?', '^' and '$').                                  *)
(***************************************************************************)

Fail == [ok |-> FALSE]

\* f as an explicit sequence.
Tuple(f) == SubSeq(f, 1, Len(f))

\* The least element of a non-empty set of numbers.
Min(S) == CHOOSE i \in S : \A j \in S : i <= j

\* Position i follows an odd run of backslashes: the last of them escapes it.
Escaped(p, i) ==
    LET others == {j \in 1..(i - 1) : p[j] # "\\"}
        last   == IF others = {} THEN 0 ELSE CHOOSE j \in others : \A k \in others : k <= j
    IN  i > 1 /\ p[i - 1] = "\\" /\ (i - 1 - last) % 2 = 1

\* The character classes from position from on, each as <<'[', its ']'>>
\* (0 where the class is not closed).  A ']' that opens the body is literal.
RECURSIVE ClassSpans(_, _, _)
ClassSpans(p, esc, from) ==
    LET opens  == {j \in from..Len(p) : p[j] = "[" /\ ~esc[j]}
        open   == Min(opens)
        body   == IF OccursAt(p, <<"^">>, open + 1) THEN open + 2 ELSE open + 1
        closes == {k \in (body + 1)..Len(p) : p[k] = "]" /\ ~esc[k]}
    IN  IF opens = {} THEN <<>>
        ELSE IF closes = {} THEN << <<open, 0>> >>
        ELSE << <<open, Min(closes)>> >> \o ClassSpans(p, esc, Min(closes) + 1)

\* What starts at each position of the pattern: a group ("open", "nopen" for
\* (?:), its "close", an atom ("class", "esc", "any", "bol", "eol", "lit"),
\* a quantifier "quant", nothing new ("in"), or a syntax error ("bad").
Kinds(p, esc, spans) ==
    LET InClass(i) == \E k \in 1..Len(spans) :
                         spans[k][1] < i /\ (spans[k][2] = 0 \/ i <= spans[k][2])
        Plain(i)   == i >= 1 /\ ~esc[i] /\ ~InClass(i)
        Kind(i)    ==
            LET c == p[i] IN
            CASE InClass(i) -> "in"
              [] esc[i] -> "in"
              [] c = "\\" -> IF i = Len(p) THEN "bad" ELSE "esc"
              [] c = "[" -> IF \E k \in 1..Len(spans) : spans[k] = <<i, 0>> THEN "bad" ELSE "class"
              [] c = "(" -> IF OccursAt(p, <<"?", ":">>, i + 1) THEN "nopen"
                            ELSE IF OccursAt(p, <<"?">>, i + 1) THEN "bad" ELSE "open"
              [] c = ")" -> "close"
              [] c \in {"*", "+"} -> "quant"
              [] c = "?" -> IF Plain(i - 1) /\ p[i - 1] \in {"*", "+", "("} THEN "in" ELSE "bad"
              [] c = ":" -> IF i >= 3 /\ Plain(i - 2) /\ SubSeq(p, i - 2, i - 1) = <<"(", "?">>
                            THEN "in" ELSE "lit"
              [] c = "." -> "any"
              [] c = "^" -> "bol"
              [] c = "$" -> "eol"
              [] OTHER -> "lit"
    IN  Tuple([i \in 1..Len(p) |-> Kind(i)])

\* The number of groups open at each position.
Depths(kind) ==
    Tuple([i \in 1..Len(kind) |->
             Cardinality({j \in 1..(i - 1) : kind[j] \in {"open", "nopen"}})
             - Cardinality({j \in 1..(i - 1) : kind[j] = "close"})])

\* The groups of the pattern, in the order of their '(': the positions of
\* the parentheses, the group number (0 for (?:) and whether a quantifier
\* follows the ')'.
GroupTable(p, kind, depth) ==
    LET IsOpen(i) == kind[i] \in {"open", "nopen"}
        opens == SelectSeq([i \in 1..Len(p) |-> i], IsOpen)
        Close(i) == Min({c \in (i + 1)..Len(p) : kind[c] = "close" /\ depth[c] = depth[i] + 1})
    IN  Tuple([k \in 1..Len(opens) |->
            [open  |-> opens[k],
             close |-> Close(opens[k]),
             idx   |-> IF kind[opens[k]] = "nopen" THEN 0
                       ELSE Cardinality({j \in 1..opens[k] : kind[j] = "open"}),
             quant |-> Close(opens[k]) < Len(p) /\ kind[Close(opens[k]) + 1] = "quant"]])

\* The number of quantified groups each position lies in, their
\* parentheses included.
QDepths(p, groups) ==
    Tuple([i \in 1..Len(p) |->
             Cardinality({k \in 1..Len(groups) :
                 groups[k].quant /\ groups[k].open <= i /\ i <= groups[k].close})])

\* The items of p[a..b], which lies in q quantified groups: character
\* classes, anchors, the marks where a capturing group opens and closes,
\* and repetitions.  A repeated class is a "run"; a repeated group is a
\* "rep" of the items inside it.
RECURSIVE Items(_, _, _, _)
Items(t, a, b, q) ==
    LET p == t.p
        GroupAt(i) == t.groups[CHOOSE k \in 1..Len(t.groups) :
                                   t.groups[k].open = i \/ t.groups[k].close = i]
        IsItem(i) ==
            /\ i >= a /\ i <= b
            /\ \/ t.qdepth[i] = q /\ t.kind[i] \in {"class", "esc", "any", "bol", "eol", "lit"}
               \/ t.qdepth[i] = q /\ t.kind[i] \in {"open", "close"} /\ GroupAt(i).idx > 0
               \/ t.qdepth[i] = q + 1 /\ t.kind[i] \in {"open", "nopen"} /\ GroupAt(i).quant
        starts == SelectSeq([i \in 1..Len(p) |-> i], IsItem)
        End(i) ==
            CASE t.kind[i] \in {"open", "nopen"} -> GroupAt(i).close
              [] t.kind[i] = "class" ->
                   t.spans[CHOOSE k \in 1..Len(t.spans) : t.spans[k][1] = i][2]
              [] t.kind[i] = "esc" -> i + 1
              [] OTHER -> i
        Quantified(i) == End(i) < Len(p) /\ t.kind[End(i) + 1] = "quant"
        Class(i) ==
            CASE t.kind[i] = "class" ->
                   LET neg  == p[i + 1] = "^"
                       body == (IF neg THEN i + 2 ELSE i + 1)..(End(i) - 1)
                   IN  [t |-> "chr", neg |-> neg,
                        set |-> {p[m] : m \in {m \in body : p[m] # "\\" \/ t.esc[m]}}]
              [] t.kind[i] = "esc" ->
                   IF p[i + 1] = "S" THEN [t |-> "chr", neg |-> TRUE, set |-> Whitespace]
                   ELSE [t |-> "chr", neg |-> FALSE, set |-> {p[i + 1]}]
              [] t.kind[i] = "any" -> [t |-> "chr", neg |-> TRUE, set |-> {"\n"}]
              [] OTHER -> [t |-> "chr", neg |-> FALSE, set |-> {p[i]}]
        Mark(kind, i) == IF GroupAt(i).idx > 0 THEN << [t |-> kind, idx |-> GroupAt(i).idx] >>
                         ELSE <<>>
        Repeat(i, t0, of) ==
            [t |-> t0, lo |-> IF p[End(i) + 1] = "+" THEN 1 ELSE 0,
             lazy |-> OccursAt(p, <<"?">>, End(i) + 2), of |-> of]
        Item(i) ==
            CASE t.kind[i] \in {"open", "nopen"} /\ Quantified(i) ->
                   Repeat(i, "rep",
                          Mark("open", i)
                          \o Items(t, IF t.kind[i] = "open" THEN i + 1 ELSE i + 3,
                                   End(i) - 1, q + 1)
                          \o Mark("close", i))
              [] t.kind[i] \in {"open", "close"} -> Mark(t.kind[i], i)[1]
              [] t.kind[i] \in {"bol", "eol"} -> [t |-> t.kind[i]]
              [] OTHER -> IF Quantified(i) THEN Repeat(i, "run", Class(i)) ELSE Class(i)
    IN  Tuple([k \in 1..Len(starts) |-> Item(starts[k])])

\* The pattern is well formed: classes and groups are closed, no escape is
\* cut short, and every quantifier follows a group or a character class.
WellFormed(p, esc, spans, kind, depth) ==
    LET n == Len(p)
        Repeatable(i) ==
            \/ kind[i] \in {"close", "any", "lit"}
            \/ \E k \in 1..Len(spans) : spans[k][2] = i
            \/ kind[i] = "in" /\ esc[i] /\ kind[i - 1] = "esc"
    IN  /\ \A i \in 1..n : kind[i] # "bad"
        /\ \A i \in 1..n : kind[i] = "close" => depth[i] >= 1
        /\ Cardinality({i \in 1..n : kind[i] \in {"open", "nopen"}})
             = Cardinality({i \in 1..n : kind[i] = "close"})
        /\ \A i \in 1..n : kind[i] = "quant" => i > 1 /\ Repeatable(i - 1)

\* The capturing groups re.compile accepts in one pattern.  The source
\* is Python 2 (`except Exception, e`), whose re raises "sorry, but this
\* version only supports 100 named groups" when the groups, the whole
\* match counted as one, are more than 100.
MaxGroups == 99

\* re.compile(pattern): the items of the pattern and the number of
\* capturing groups, or ok = FALSE where re.compile raises.
ReCompile(p) ==
    LET esc    == Tuple([i \in 1..Len(p) |-> Escaped(p, i)])
        spans  == ClassSpans(p, esc, 1)
        kind   == Kinds(p, esc, spans)
        depth  == Depths(kind)
        groups == GroupTable(p, kind, depth)
        t      == [p |-> p, esc |-> esc, spans |-> spans, kind |-> kind,
                   groups |-> groups, qdepth |-> QDepths(p, groups)]
    IN  IF WellFormed(p, esc, spans, kind, depth)
           /\ Cardinality({i \in 1..Len(p) : kind[i] = "open"}) <= MaxGroups
        THEN [ok |-> TRUE, items |-> Items(t, 1, Len(p), 0),
              groups |-> Cardinality({i \in 1..Len(p) : kind[i] = "open"})]
        ELSE Fail

\* Matching is backtracking.  An outcome is <<next position, captures,
\* where each open group started>>; each operator returns the list of its
\* possible outcomes in the order the engine tries them.
RECURSIVE MatchRange(_, _, _, _, _), MatchEach(_, _, _, _, _, _, _),
          MatchRep(_, _, _, _), MatchMore(_, _, _, _, _, _)

\* One character class at position i.
MatchChr(n, s, i) == i <= Len(s) /\ ((s[i] \in n.set) # n.neg)

\* A repeated character class: the runs from the longest down to lo
\* characters when greedy, from lo up to the longest when lazy.
MatchRun(n, s, o) ==
    LET i     == o[1]
        stops == {j \in i..Len(s) : ~MatchChr(n.of, s, j)}
        end   == IF stops = {} THEN Len(s) + 1 ELSE Min(stops)
        count == end - i - n.lo + 1
    IN  IF count <= 0 THEN <<>>
        ELSE Tuple([k \in 1..count |->
                <<IF n.lazy THEN i + n.lo + k - 1 ELSE end - k + 1, o[2], o[3]>>])

\* One item after the outcome o.
MatchItem(n, s, o) ==
    CASE n.t = "chr" -> IF MatchChr(n, s, o[1]) THEN << <<o[1] + 1, o[2], o[3]>> >> ELSE <<>>
      [] n.t = "bol" -> IF o[1] = 1 THEN <<o>> ELSE <<>>
      [] n.t = "eol" ->
           IF o[1] = Len(s) + 1 \/ (o[1] = Len(s) /\ s[o[1]] = "\n") THEN <<o>> ELSE <<>>
      [] n.t = "open" -> << <<o[1], o[2], [o[3] EXCEPT ![n.idx] = o[1]]>> >>
      [] n.t = "close" ->
           << <<o[1], [o[2] EXCEPT ![n.idx] = SubSeq(s, o[3][n.idx], o[1] - 1)], o[3]>> >>
      [] n.t = "run" -> MatchRun(n, s, o)
      [] n.t = "rep" -> MatchRep(n, n.lo, s, o)

\* items[a..b] after the outcome o.
MatchRange(items, a, b, s, o) ==
    CASE a > b -> <<o>>
      [] a = b -> MatchItem(items[a], s, o)
      [] OTHER -> MatchEach(items, (a + b) \div 2 + 1, b, s,
                            MatchRange(items, a, (a + b) \div 2, s, o), 1, 0)

\* items[a..b] after each of the outcomes rs[lo..hi] (all of rs for hi = 0).
MatchEach(items, a, b, s, rs, lo, hi) ==
    CASE rs = <<>> -> <<>>
      [] (hi = 0 /\ Len(rs) = 1) \/ lo = hi -> MatchRange(items, a, b, s, rs[lo])
      [] hi = 0 -> MatchEach(items, a, b, s, rs, 1, Len(rs))
      [] OTHER -> MatchEach(items, a, b, s, rs, lo, (lo + hi) \div 2)
                  \o MatchEach(items, a, b, s, rs, (lo + hi) \div 2 + 1, hi)

\* n.of repeated at least lo more times after the outcome o: greedy tries
\* one more first, lazy last.
MatchRep(n, lo, s, o) ==
    LET more == MatchMore(n, lo, s, MatchRange(n.of, 1, Len(n.of), s, o), 1, 0)
    IN  CASE lo > 0 -> more
          [] n.lazy -> <<o>> \o more
          [] OTHER  -> more \o <<o>>

\* The repetitions that follow each of the outcomes rs[a..b] of one more
\* n.of (all of rs for b = 0).
MatchMore(n, lo, s, rs, a, b) ==
    CASE rs = <<>> -> <<>>
      [] (b = 0 /\ Len(rs) = 1) \/ a = b -> MatchRep(n, IF lo > 0 THEN lo - 1 ELSE 0, s, rs[a])
      [] b = 0 -> MatchMore(n, lo, s, rs, 1, Len(rs))
      [] OTHER -> MatchMore(n, lo, s, rs, a, (a + b) \div 2)
                  \o MatchMore(n, lo, s, rs, (a + b) \div 2 + 1, b)

\* regex.match(s): None, or the captured groups of the first outcome.
ReMatch(regex, s) ==
    LET rs == MatchRange(regex.items, 1, Len(regex.items), s,
                         <<1, [k \in 1..regex.groups |-> None], [k \in 1..regex.groups |-> 0]>>)
    IN  IF rs = <<>> THEN None ELSE rs[1][2]

(***************************************************************************)
(* parser: the directive table, alias, _parse_format and parse.            *)
(***************************************************************************)

\* parser.format_to_name: directive -> friendly name.
format_to_name ==
    << <<"%a", "remote_ip">>, <<"%A", "local_ip">>, <<"%B", "response_bytes">>,
       <<"%b", "response_bytes_clf">>, <<"%{}C", "cookie">>,
       <<"%D", "response_time_us">>, <<"%{}e", "env">>, <<"%f", "filename">>,
       <<"%h", "remote_host">>, <<"%H", "request_protocol">>, <<"%{}i", "header">>,
       <<"%k", "keepalive_num">>, <<"%l", "remote_logname">>,
       <<"%m", "request_method">>, <<"%{}n", "note">>, <<"%{}o", "reply_header">>,
       <<"%p", "server_port">>, <<"%{}p", "port">>, <<"%P", "process_id">>,
       <<"%{}P", "pid">>, <<"%q", "query_string">>, <<"%r", "first_line">>,
       <<"%R", "response_handler">>, <<"%s", "status">>, <<"%>s", "last_status">>,
       <<"%t", "time">>, <<"%T", "response_time_sec">>, <<"%u", "remote_user">>,
       <<"%U", "url_path">>, <<"%v", "canonical_server_name">>,
       <<"%V", "server_name_config">>, <<"%X", "completed_connection_status">>,
       <<"%I", "bytes_received">>, <<"%O", "bytes_sent">> >>

\* The table's keys and values as character sequences.
FormatToName == [k \in 1..Len(format_to_name) |->
                    <<Chars(format_to_name[k][1]), Chars(format_to_name[k][2])>>]

\* name in self.format_to_name
HasKey(name) == \E k \in 1..Len(FormatToName) : FormatToName[k][1] = name

\* self.format_to_name[name]
Lookup(name) == FormatToName[CHOOSE k \in 1..Len(FormatToName) : FormatToName[k][1] = name][2]

\* A variant of the replacement (for ReplaceHyphen): only the first hyphen
\* is replaced.
ReplaceFirstHyphen(s) ==
    [i \in 1..Len(s) |->
        IF s[i] = "-" /\ \A j \in 1..(i - 1) : s[j] # "-" THEN "_" ELSE s[i]]

\* A variant of the replacement (for ReplaceHyphen): nothing is replaced.
KeepHyphen(s) == s

\* custom_format.replace('-', '_')
ReplaceHyphen(s) == [i \in 1..Len(s) |-> IF s[i] = "-" THEN "_" ELSE s[i]]

\* parser.alias(name)
alias(name) ==
    LET custom   == StartsWith(name, Chars("%{"))
        generic  == IF custom THEN Chars("%{}") \o <<name[Len(name)]>> ELSE name
        modifier == <<"_">> \o SubSeq(name, 3, Len(name) - 2)
        custom_format ==
            IF ~custom THEN <<>>
            ELSE IF generic # Chars("%{}t") THEN ReplaceHyphen(modifier)
            ELSE modifier
    IN  IF HasKey(generic) THEN Lookup(generic) \o custom_format ELSE generic

\* The helper expressions of _parse_format.
findquotes  == ReCompile(Chars("^\\\\\""))
findpercent == ReCompile(Chars("^%.*t$"))

\* findreferreragent.search(element): 'Referer|User-Agent', ignoring case.
FindReferrerAgent(element) ==
    \E i \in 1..Len(element) :
        \/ OccursAt(LowerStr(element), Chars("referer"), i)
        \/ OccursAt(LowerStr(element), Chars("user-agent"), i)

\* lstripquotes.sub('', element): drop an escaped quote at the start.
LStripQuotes(element) ==
    IF StartsWith(element, Chars("\\\"")) THEN From(element, 3) ELSE element

\* rstripquotes.sub('', element): drop an escaped quote where '$' matches,
\* at the end or before a final newline.
RStripQuotes(element) ==
    LET n == Len(element) IN
    IF OccursAt(element, Chars("\\\""), n - 1) THEN SubSeq(element, 1, n - 2)
    ELSE IF OccursAt(element, Chars("\\\"\n"), n - 2) THEN SubSeq(element, 1, n - 3) \o <<"\n">>
    ELSE element

\* A variant of the normalisation (for CollapseBlanks): blanks are kept.
KeepBlanks(s) == s

\* re.sub('[ \t]+', ' ', format): each run of spaces and tabs becomes one space.
CollapseBlanks(s) ==
    LET Blank(i) == s[i] \in {" ", "\t"}
        Kept(i)  == ~Blank(i) \/ i = 1 \/ ~Blank(i - 1)
        kept     == SelectSeq([i \in 1..Len(s) |-> i], Kept)
    IN  [k \in 1..Len(kept) |-> IF Blank(kept[k]) THEN " " ELSE s[kept[k]]]

\* The elements the loop of _parse_format runs over.
Elements(format) == Split(CollapseBlanks(Strip(format)))

\* hasquotes
HasQuotes(element) == ReMatch(findquotes, element) # None

\* A variant of the strip steps (for Stripped): they run for every element.
StrippedAlways(element) == RStripQuotes(LStripQuotes(element))

\* element after the two strip steps.
Stripped(element) ==
    IF HasQuotes(element) THEN RStripQuotes(LStripQuotes(element)) ELSE element

\* Variants of the subpatterns (for SubDefault, SubQuotedEsc, SubTime): '.'
\* in place of \S, the group under the star, a capturing inner group, no
\* escapes, a time without blanks.
SubDefaultAny == Chars("(.*)")
SubDefaultInner == Chars("(\\S)*")
SubQuotedEscInner == Chars("\\\"([^\"\\\\]*(\\\\.[^\"\\\\]*)*)\\\"")
SubQuotedEscPlain == Chars("\\\"([^\"]*)\\\"")

SubTimeWord == Chars("(\\[\\S+\\])")

\* The five subpatterns.
SubDefault   == Chars("(\\S*)")
SubQuotedEsc == Chars("\\\"([^\"\\\\]*(?:\\\\.[^\"\\\\]*)*)\\\"")
SubQuoted    == Chars("\\\"([^\\\"]*)\\\"")
SubTime      == Chars("(\\[[^\\]]+\\])")
SubUrl       == Chars("(.+?)")

\* A variant of the choice (for Subpattern): the time directive is looked
\* for before the quotes.
SubpatternTimeFirst(element) ==
    LET e == Stripped(element) IN
    IF ReMatch(findpercent, e) # None THEN SubTime
    ELSE IF HasQuotes(element)
    THEN IF e = Chars("%r") \/ FindReferrerAgent(e) THEN SubQuotedEsc ELSE SubQuoted
    ELSE IF e = Chars("%U") THEN SubUrl
    ELSE SubDefault

\* A variant of the choice (for Subpattern): an element that is none of
\* the known kinds is copied into its group.
SubpatternCopyingElement(element) ==
    LET e == Stripped(element) IN
    IF HasQuotes(element)
    THEN IF e = Chars("%r") \/ FindReferrerAgent(e) THEN SubQuotedEsc ELSE SubQuoted
    ELSE IF ReMatch(findpercent, e) # None THEN SubTime
    ELSE IF e = Chars("%U") THEN SubUrl
    ELSE IF StartsWith(e, <<"%">>) THEN SubDefault
    ELSE <<"(">> \o e \o <<")">>

\* subpattern for one element of the format.
Subpattern(element) ==
    LET e == Stripped(element) IN
    IF HasQuotes(element)
    THEN IF e = Chars("%r") \/ FindReferrerAgent(e) THEN SubQuotedEsc ELSE SubQuoted
    ELSE IF ReMatch(findpercent, e) # None THEN SubTime
    ELSE IF e = Chars("%U") THEN SubUrl
    ELSE SubDefault

\* self._names after the loop.
Names(format, friendly) ==
    LET es == Elements(format)
    IN  [k \in 1..Len(es) |-> IF friendly THEN alias(Stripped(es[k])) ELSE Stripped(es[k])]

\* self._pattern
Pattern(format) ==
    LET es == Elements(format)
    IN  <<"^">> \o Join([k \in 1..Len(es) |-> Subpattern(es[k])]) \o <<"$">>

\* A variant of the loop of parse (for Zip): a key once set is kept.
RECURSIVE ZipFirstWins(_, _, _, _)
ZipFirstWins(names, groups, k, data) ==
    IF k > Len(names) \/ k > Len(groups) THEN data
    ELSE ZipFirstWins(names, groups, k + 1, data @@ (names[k] :> groups[k]))

\* The loop of parse: data[k] = v for k, v in zip(names, groups).
RECURSIVE Zip(_, _, _, _)
Zip(names, groups, k, data) ==
    IF k > Len(names) \/ k > Len(groups) THEN data
    ELSE Zip(names, groups, k + 1, (names[k] :> groups[k]) @@ data)

EmptyDict == [k \in {} |-> <<>>]

\* ApacheLogParserError("Unable to parse: %s with the %s regular expression"
\*                      % (line, self._pattern)): the message of the error.
ApacheLogParserError(ln, pattern) ==
    Chars("Unable to parse: ") \o ln \o Chars(" with the ") \o pattern
        \o Chars(" regular expression")

\* A variant of parse (for ParseLine): the line is matched as given.
ParseLineUntrimmed(names, pattern, regex, ln) ==
    LET match == ReMatch(regex, ln)
    IN  IF match # None
        THEN [kind |-> "record", data |-> Zip(names, match, 1, EmptyDict)]
        ELSE [kind |-> "error", message |-> ApacheLogParserError(ln, pattern)]

\* parser.parse(line) on a compiled parser: the record, or the error raised.
ParseLine(names, pattern, regex, ln) ==
    LET stripped == Strip(ln)
        match    == ReMatch(regex, stripped)
    IN  IF match # None
        THEN [kind |-> "record", data |-> Zip(names, match, 1, EmptyDict)]
        ELSE [kind |-> "error", message |-> ApacheLogParserError(stripped, pattern)]

\* parser.formats
formats_common   == Chars("%h %l %u %t \\\"%r\\\" %>s %b")
formats_vhcommon == Chars("%v %h %l %u %t \\\"%r\\\" %>s %b")
formats_extended ==
    Chars("%h %l %u %t \\\"%r\\\" %>s %b \\\"%{Referer}i\\\" \\\"%{User-Agent}i\\\"")

(***************************************************************************)
(* The state: one parser object and the line it is given.                  *)
(***************************************************************************)
VARIABLES
    pc,                  \* "new", "ready" (constructed) or "failed" (constructor raised)
    format,              \* the format string given to the constructor
    use_friendly_names,  \* self._use_friendly_names
    _names,              \* self._names
    _pattern,            \* self._pattern
    _regex,              \* self._regex
    entry,               \* the field values the server wrote the line from
    line,                \* the line last given to parse
    result,              \* what that parse call returned or raised
    parsed,              \* the lines given to parse so far, in order
    ppc,                 \* where process is: "idle", "for_line", "for_processor",
                         \* "returned" or "raised"
    stream,              \* the lines of the stream given to process
    processors,          \* the number of processors given to process
    index,               \* the number of lines process has taken from the stream
    processor,           \* the number of processors called for the current line
    calls,               \* the calls processor.process(data) made so far, in order
    last_time,           \* LogTimeProcessor.last_time
    start_time,          \* LogTimeProcessor.start_time
    stop_time,           \* LogTimeProcessor.stop_time
    bytes,               \* BandwidthProcessor.bytes
    last_bytes,          \* BandwidthProcessor.last_bytes
    ip_bytes,            \* IPBandwidthProcessor.ip_bytes
    request,             \* StatusProcessor.request
    status,              \* StatusProcessor.status
    processed,           \* the records a processor's process call returned for, in order
    asked,               \* the (ip, name) answers of the resolver in the last resolve, in order
    output,              \* the lines display_ip_bandwidth wrote, after the heading
    IP,                  \* Resolver.IP, the cache shared by all Resolver instances
    lookups,             \* the reverse-DNS lookups made so far, in order
    resolves             \* the Resolver.resolve calls made so far, in order

\* The variables of process(stream, parser, processors).
processVars == <<ppc, stream, processors, index, processor, calls>>

\* The fields of a LogTimeProcessor.
timeVars == <<last_time, start_time, stop_time>>

\* The further fields of a BandwidthProcessor and an IPBandwidthProcessor.
bandwidthVars == <<bytes, last_bytes, ip_bytes>>

\* The fields of a StatusProcessor.
statusVars == <<request, status>>

\* The class-level state of Resolver, and the calls made on it.
resolverVars == <<IP, lookups, resolves>>

\* The variables of the processors, the resolver and the front end.
aggVars == <<timeVars, bandwidthVars, statusVars, processed, asked, output, resolverVars>>

vars == <<pc, format, use_friendly_names, _names, _pattern, _regex, entry, line, result,
          parsed, processVars, aggVars>>

NoResult == [kind |-> "none"]

\* None, as the value of a field that otherwise holds a datetime or a number.
NoValue == [kind |-> "None"]

Init ==
    /\ pc = "new"
    /\ format = <<>>
    /\ use_friendly_names = FALSE
    /\ _names = <<>>
    /\ _pattern = <<>>
    /\ _regex = None
    /\ entry = <<>>
    /\ line = <<>>
    /\ result = NoResult
    /\ parsed = <<>>
    /\ ppc = "idle"
    /\ stream = <<>>
    /\ processors = 0
    /\ index = 0
    /\ processor = 0
    /\ calls = <<>>
    /\ last_time = NoValue
    /\ start_time = NoValue
    /\ stop_time = NoValue
    /\ bytes = 0
    /\ last_bytes = NoValue
    /\ ip_bytes = EmptyDict
    /\ request = EmptyDict
    /\ status = EmptyDict
    /\ processed = <<>>
    /\ asked = <<>>
    /\ output = <<>>
    /\ IP = EmptyDict
    /\ lookups = <<>>
    /\ resolves = <<>>

\* parser.__init__(format, use_friendly_names)
Construct(fmt, friendly) ==
    /\ pc = "new"
    /\ format' = fmt
    /\ use_friendly_names' = friendly
    /\ _names' = Names(format', use_friendly_names')
    /\ _pattern' = Pattern(format')
    /\ LET regex == ReCompile(_pattern')
       IN  IF regex.ok THEN _regex' = regex /\ pc' = "ready"
           ELSE _regex' = None /\ pc' = "failed"
    /\ UNCHANGED <<entry, line, result, parsed, processVars, aggVars>>

\* A variant of parse (for Parse): the call uses up the first field name.
ParseConsuming(e, ln) ==
    /\ pc = "ready"
    /\ entry' = e
    /\ line' = ln
    /\ result' = ParseLine(_names, _pattern, _regex, line')
    /\ parsed' = Append(parsed, line')
    /\ _names' = Tail(_names)
    /\ UNCHANGED <<pc, format, use_friendly_names, _pattern, _regex, processVars, aggVars>>

\* parser.parse(ln), where ln was written from the field values e.
Parse(e, ln) ==
    /\ pc = "ready"
    /\ entry' = e
    /\ line' = ln
    /\ result' = ParseLine(_names, _pattern, _regex, line')
    /\ parsed' = Append(parsed, line')
    /\ UNCHANGED <<pc, format, use_friendly_names, _names, _pattern, _regex, processVars, aggVars>>

(***************************************************************************)
(* Inputs and specifications.  In every specification one parser is        *)
(* constructed and parses one line; the specifications differ in the       *)
(* format strings and lines they draw.                                     *)
(***************************************************************************)

\* All sequences of at most n elements of S.
RECURSIVE SeqsUpTo(_, _)
SeqsUpTo(S, n) ==
    IF n = 0 THEN {<<>>}
    ELSE LET shorter == SeqsUpTo(S, n - 1)
         IN  shorter \cup {<<x>> \o q : x \in S, q \in {r \in shorter : Len(r) = n - 1}}

\* The concatenation of a sequence of strings.
RECURSIVE Concat(_)
Concat(parts) == IF parts = <<>> THEN <<>> ELSE parts[1] \o Concat(Tail(parts))

\* The strings of one to n tokens of T, consecutive tokens separated by a
\* string of S.
RECURSIVE Written(_, _, _)
Written(T, S, n) ==
    IF n <= 1 THEN T
    ELSE LET shorter == Written(T, S, n - 1)
         IN  shorter \cup {f \o sep \o t : f \in shorter, sep \in S, t \in T}

\* What the server writes for the field values vs: a quoted field between
\* double quotes, the fields separated by single spaces.
WriteLine(quoted, vs) ==
    Join([k \in 1..Len(vs) |->
            IF quoted[k] THEN <<"\"">> \o vs[k] \o <<"\"">> ELSE vs[k]])

\* A parse call has returned or raised.
Done == pc = "ready" /\ result # NoResult

MaxTokens == 2
MaxLineLen == 4
MaxParts == 3

\* ---- Spec: one directive of each kind, every short line ----

\* One directive of each kind _parse_format tells apart.
KindTokens ==
    {Chars("%h"), Chars("%t"), Chars("%U"), Chars("\\\"%r\\\""), Chars("\\\"%h\\\"")}

KindFormats == Written(KindTokens, {<<" ">>}, MaxTokens)

LineChars == {" ", "\"", "[", "]"}

Lines == SeqsUpTo(LineChars, MaxLineLen)

Next ==
    \/ \E fmt \in KindFormats, friendly \in BOOLEAN : Construct(fmt, friendly)
    \/ ~Done /\ \E ln \in Lines : Parse(<<>>, ln)

Spec == Init /\ [][Next]_vars

(***************************************************************************)
(* Properties of parse (checked under Spec).                               *)
(***************************************************************************)

\* The number of single-space-delimited segments of a string.
Segments(s) == Len(Split(s))

\* Every directive of the format is a plain one: not quoted, no time
\* directive and not %U.
AllPlain ==
    \A k \in 1..Len(Elements(format)) :
        LET e == Elements(format)[k]
        IN  /\ ~StartsWith(e, Chars("\\\""))
            /\ ~(Len(e) >= 2 /\ e[1] = "%" /\ e[Len(e)] = "t")
            /\ e # Chars("%U")

\* The groups the compiled pattern captures in the line last parsed.
Groups == ReMatch(_regex, Strip(line))

\* A value is a string: a sequence of single characters.
IsString(v) == \A i \in 1..Len(v) : Len(v[i]) = 1

\* C3 as stated: a trimmed line with fewer or more space-delimited segments
\* than the pattern has subexpressions always raises the parse error,
\* whatever the kinds of the directives.
C3_SegmentMismatchRaises ==
    Done /\ Segments(Strip(line)) # Len(_names) => result.kind = "error"

\* C3 amended: a line with fewer segments than directives raises the parse
\* error for every kind of directive; a line with more segments raises it
\* when all directives are plain ones.
C3_FewerOrPlainMoreRaises ==
    Done =>
        /\ Segments(Strip(line)) < Len(_names) => result.kind = "error"
        /\ Segments(Strip(line)) > Len(_names) /\ AllPlain => result.kind = "error"

\* A line with too few segments was refused by a format with a quoted, time
\* or %U directive.
C3_Witness ==
    /\ Done
    /\ ~AllPlain
    /\ Len(_names) = 2
    /\ Segments(Strip(line)) < Len(_names)
    /\ Len(Strip(line)) > 0
    /\ result.kind = "error"

\* C8: the compiled pattern has exactly one capturing group per field name,
\* in the same order: its i-th space-separated subexpression holds exactly one
\* capturing group, and a successful match yields one group per name.
C8_OneGroupPerName ==
    pc = "ready" =>
        LET subs == Split(SubSeq(_pattern, 2, Len(_pattern) - 1))
        IN  /\ _regex.groups = Len(_names)
            /\ Len(subs) = Len(_names)
            /\ result = NoResult =>
                 \A i \in 1..Len(subs) : ReCompile(subs[i]).ok /\ ReCompile(subs[i]).groups = 1
            /\ result.kind = "record" => Len(Groups) = Len(_names)

\* A line was parsed by a two-directive pattern that also holds a
\* non-capturing group.
C8_Witness ==
    /\ Done
    /\ result.kind = "record"
    /\ Len(_names) = 2
    /\ \E i \in 1..Len(_pattern) : OccursAt(_pattern, Chars("(?:"), i)

\* C9: the keys of a returned record are exactly the field names, and every
\* value is a captured string, never None.
C9_RecordKeysAreNames ==
    result.kind = "record" =>
        /\ DOMAIN result.data = {_names[i] : i \in 1..Len(_names)}
        /\ \A k \in DOMAIN result.data : result.data[k] # None /\ IsString(result.data[k])

\* A record with two different friendly names, one of them for an empty capture.
C9_Witness ==
    /\ Done
    /\ result.kind = "record"
    /\ use_friendly_names
    /\ Cardinality(DOMAIN result.data) = 2
    /\ \E k \in DOMAIN result.data : result.data[k] = <<>>

\* C10: when a field name occurs at several positions, the record holds the
\* capture of the last of them, and the other names hold their own captures.
C10_LastWriteWins ==
    result.kind = "record" =>
        \A j \in 1..Len(_names) :
            (\A k \in (j + 1)..Len(_names) : _names[k] # _names[j])
                => result.data[_names[j]] = Groups[j]

\* A record for a format that repeats a directive, with different captures
\* at the two positions.
C10_Witness ==
    /\ Done
    /\ result.kind = "record"
    /\ Len(_names) = 2
    /\ _names[1] = _names[2]
    /\ Groups[1] # Groups[2]
    /\ result.data[_names[2]] = Groups[2]

(***************************************************************************)
(* SpecExtended: the 'extended' preset and lines the server writes for it. *)
(***************************************************************************)

\* Which fields of the 'extended' format the server writes between quotes.
ExtendedQuoted == <<FALSE, FALSE, FALSE, FALSE, TRUE, FALSE, FALSE, TRUE, TRUE>>

\* Values without whitespace, for %h %l %u %>s %b.
Words == {Chars("-"), Chars("1.2\"[\\")}

\* Bracketed values without ']' inside, for %t.
Times == {Chars("[t]"), Chars("[18/Feb/2012:10:25:43 -0500]"), Chars("[[ \"\\]")}

\* Values without double quote and backslash, for %r, Referer and User-Agent.
Texts == {<<>>, Chars("GET / HTTP/1.1"), Chars(" [a] ")}

ExtendedEntries ==
    {<<h, l, u, t, r, st, b, ref, ag>> :
        h \in Words, l \in {Chars("-")}, u \in Words, t \in Times, r \in Texts,
        st \in {Chars("200")}, b \in Words, ref \in Texts, ag \in Texts}

NextExtended ==
    \/ \E friendly \in BOOLEAN : Construct(formats_extended, friendly)
    \/ ~Done /\ \E e \in ExtendedEntries : Parse(e, WriteLine(ExtendedQuoted, e))

SpecExtended == Init /\ [][NextExtended]_vars

\* The field names the tests expect for the 'extended' format.
ExtendedFields ==
    <<Chars("%h"), Chars("%l"), Chars("%u"), Chars("%t"), Chars("%r"), Chars("%>s"),
      Chars("%b"), Chars("%{Referer}i"), Chars("%{User-Agent}i")>>

FriendlyFields ==
    <<Chars("remote_host"), Chars("remote_logname"), Chars("remote_user"), Chars("time"),
      Chars("first_line"), Chars("last_status"), Chars("response_bytes_clf"),
      Chars("header_Referer"), Chars("header_User_Agent")>>

\* The pattern the tests expect for the 'extended' format.
ExtendedPattern ==
    Chars("^(\\S*) (\\S*) (\\S*) (\\[[^\\]]+\\]) ")
    \o Chars("\\\"([^\"\\\\]*(?:\\\\.[^\"\\\\]*)*)\\\" ")
    \o Chars("(\\S*) (\\S*) \\\"([^\"\\\\]*(?:\\\\.[^\"\\\\]*)*)\\\" ")
    \o Chars("\\\"([^\"\\\\]*(?:\\\\.[^\"\\\\]*)*)\\\"$")

\* C1: a line written from nine field values for the 'extended' format parses
\* into a record that maps each of the nine field names to its value.
C1_ExtendedRoundTrip ==
    Done =>
        /\ result.kind = "record"
        /\ \A i \in 1..9 :
             LET name == IF use_friendly_names THEN FriendlyFields[i] ELSE ExtendedFields[i]
             IN  name \in DOMAIN result.data /\ result.data[name] = entry[i]

\* A line whose time and request hold spaces and whose host holds a quote
\* and a bracket was parsed.
C1_Witness ==
    /\ Done
    /\ result.kind = "record"
    /\ ~use_friendly_names
    /\ entry[1] = Chars("1.2\"[\\")
    /\ entry[4] = Chars("[18/Feb/2012:10:25:43 -0500]")
    /\ entry[5] = Chars("GET / HTTP/1.1")
    /\ result.data[Chars("%r")] = Chars("GET / HTTP/1.1")

\* C4: with friendly names the 'extended' preset yields the nine friendly
\* names in order, and the same pattern as without friendly names.
C4_FriendlyExtendedNames ==
    pc = "ready" =>
        /\ use_friendly_names => _names = FriendlyFields
        /\ _pattern = ExtendedPattern

\* The 'extended' preset was compiled with friendly names.
C4_Witness ==
    /\ pc = "ready"
    /\ use_friendly_names
    /\ format = formats_extended
    /\ Len(_names) = 9

(***************************************************************************)
(* SpecEscaped: quoted fields whose values hold escaped quotes.            *)
(***************************************************************************)

\* Formats with a quoted %r, Referer or User-Agent and a field after it.
EscapedFormats ==
    {Chars("\\\"%r\\\" %>s"),
     Chars("\\\"%{Referer}i\\\" \\\"%{User-Agent}i\\\""),
     Chars("%h \\\"%{user-agent}i\\\" %b")}

\* What a quoted value is made of: a letter, a space, an escaped quote.
EscapedParts == {Chars("a"), Chars(" "), Chars("\\\"")}

\* The quoted values: at most MaxParts parts in a row.
EscapedTexts == {Concat(ps) : ps \in SeqsUpTo(EscapedParts, MaxParts)}

\* The values of the fields that are not quoted.
PlainWords == {Chars("200"), Chars("\"")}

\* Which fields of the format the server writes between quotes.
QuotedFields(fmt) == [k \in 1..Len(Elements(fmt)) |-> HasQuotes(Elements(fmt)[k])]

\* The field values for a format of two or of three directives.
EscapedEntries(fmt) ==
    LET V(k) == IF QuotedFields(fmt)[k] THEN EscapedTexts ELSE PlainWords
    IN  IF Len(Elements(fmt)) = 2
        THEN {<<a, b>> : a \in V(1), b \in V(2)}
        ELSE {<<a, b, c>> : a \in V(1), b \in V(2), c \in V(3)}

NextEscaped ==
    \/ \E fmt \in EscapedFormats, friendly \in BOOLEAN : Construct(fmt, friendly)
    \/ pc = "ready" /\ ~Done /\ \E e \in EscapedEntries(format) : Parse(e, WriteLine(QuotedFields(format), e))

SpecEscaped == Init /\ [][NextEscaped]_vars

\* An escaped quote: a backslash and a double quote.
EscapedQuote == Chars("\\\"")

\* C2: a line whose quoted %r, Referer or User-Agent value holds escaped
\* quotes, also at its start and right before the closing quote, parses, and
\* every field holds its whole value, the escape sequences kept.
C2_EscapedQuotesCaptured ==
    Done =>
        /\ result.kind = "record"
        /\ \A i \in 1..Len(_names) : result.data[_names[i]] = entry[i]

\* A request that starts and ends with an escaped quote was captured whole,
\* and so was the status after it.
C2_Witness ==
    /\ Done
    /\ result.kind = "record"
    /\ ~use_friendly_names
    /\ format = Chars("\\\"%r\\\" %>s")
    /\ entry[1] = EscapedQuote \o Chars("a") \o EscapedQuote
    /\ result.data[Chars("%r")] = entry[1]
    /\ result.data[Chars("%>s")] = Chars("200")

(***************************************************************************)
(* SpecFormat: formats of quoted, half-quoted and plain directives, the    *)
(* tokens separated by a space and a tab.                                   *)
(***************************************************************************)

FormatTokens ==
    {Chars("%h"), Chars("%t"), Chars("%{x}t"), Chars("%U"), Chars("%{User-Agent}i"),
     Chars("\\\"%r\\\""), Chars("\\\"%t\\\""), Chars("\\\"%U\\\""),
     Chars("\\\"%{REFERER}i\\\""), Chars("\\\"%{x-user-agent}i\\\""),
     Chars("\\\"%b"), Chars("%t\\\"")}

\* A run of blanks that the constructor collapses to one space.
FormatSeparators == {Chars(" \t")}

Formats == Written(FormatTokens, FormatSeparators, MaxTokens)

NextFormat == \E fmt \in Formats, friendly \in BOOLEAN : Construct(fmt, friendly)

SpecFormat == Init /\ [][NextFormat]_vars

\* A token begins, ends with an escaped-quote marker.
LeadingMarker(tok) == StartsWith(tok, EscapedQuote)
TrailingMarker(tok) == Len(tok) >= 2 /\ SubSeq(tok, Len(tok) - 1, Len(tok)) = EscapedQuote

\* A token with the markers it has at its two ends removed.
MarkersRemoved(tok) ==
    LET t == IF LeadingMarker(tok) THEN From(tok, 3) ELSE tok
    IN  IF TrailingMarker(t) THEN SubSeq(t, 1, Len(t) - 2) ELSE t

\* C5 as stated: without friendly names, the i-th name is the i-th token of
\* the normalized format with its leading and trailing markers removed.
C5_NamesAreTokensWithoutMarkers ==
    pc = "ready" /\ ~use_friendly_names =>
        /\ Len(_names) = Len(Elements(format))
        /\ \A i \in 1..Len(_names) : _names[i] = MarkersRemoved(Elements(format)[i])

\* What _parse_format does: without friendly names, the i-th name is the
\* i-th token of the normalized format, with its leading and trailing markers
\* removed when the token begins with a marker, and the token as it is
\* otherwise (a marker at the end only is kept).
C5_NamesAreTokensStrippedIfLeading ==
    pc = "ready" /\ ~use_friendly_names =>
        /\ Len(_names) = Len(Elements(format))
        /\ \A i \in 1..Len(_names) :
             LET tok == Elements(format)[i]
             IN  _names[i] = IF LeadingMarker(tok) THEN MarkersRemoved(tok) ELSE tok

\* Names were computed for a quoted request followed by a token with a
\* marker at its end only.
C5_Witness ==
    /\ pc = "ready"
    /\ ~use_friendly_names
    /\ format = Chars("\\\"%r\\\" \t%t\\\"")
    /\ _names = <<Chars("%r"), Chars("%t\\\"")>>

\* s holds w, ignoring case.
ContainsIgnoringCase(s, w) == \E i \in 1..Len(s) : OccursAt(LowerStr(s), LowerStr(w), i)

\* The subexpression the five rules of C6 give a token.
RuleSubpattern(tok) ==
    CASE LeadingMarker(tok) /\ (\/ MarkersRemoved(tok) = Chars("%r")
                                \/ ContainsIgnoringCase(MarkersRemoved(tok), Chars("Referer"))
                                \/ ContainsIgnoringCase(MarkersRemoved(tok), Chars("User-Agent")))
           -> Chars("\\\"([^\"\\\\]*(?:\\\\.[^\"\\\\]*)*)\\\"")
      [] LeadingMarker(tok) -> Chars("\\\"([^\\\"]*)\\\"")
      [] Len(tok) >= 2 /\ tok[1] = "%" /\ tok[Len(tok)] = "t" -> Chars("(\\[[^\\]]+\\])")
      [] tok = Chars("%U") -> Chars("(.+?)")
      [] OTHER -> Chars("(\\S*)")

\* C6: the pattern is '^', the subexpressions of the tokens joined by single
\* spaces, and '$'; each subexpression is the one the five rules give, so a
\* quoted time directive or a quoted %U takes the plain quoted capture.
C6_PatternBySubpatternRules ==
    pc = "ready" =>
        LET toks == Elements(format)
        IN  _pattern = <<"^">> \o Join([i \in 1..Len(toks) |-> RuleSubpattern(toks[i])]) \o <<"$">>

\* A pattern was built for a quoted time directive next to a bare one.
C6_Witness ==
    /\ pc = "ready"
    /\ format = Chars("\\\"%t\\\" \t%t")
    /\ _pattern = Chars("^\\\"([^\\\"]*)\\\" (\\[[^\\]]+\\])$")

(***************************************************************************)
(* SpecWhitespace: formats with every kind of whitespace between and       *)
(* around the directives, and formats without a directive.                 *)
(***************************************************************************)

WhitespaceTokens == {Chars("%h"), Chars("\\\"%r\\\"")}

WhitespaceSeparators ==
    {Chars(" "), Chars("\t"), Chars("  "), Chars("\t "), Chars("\n"), Chars(" \f")}

\* What may stand before the first and after the last directive.
Pads == {<<>>, Chars(" "), Chars("\n\t")}

WhitespaceFormats ==
    {a \o f \o b : a \in Pads, b \in Pads,
                   f \in {<<>>} \cup Written(WhitespaceTokens, WhitespaceSeparators, MaxTokens)}

NextWhitespace == \E fmt \in WhitespaceFormats, friendly \in BOOLEAN : Construct(fmt, friendly)

SpecWhitespace == Init /\ [][NextWhitespace]_vars

\* The number of whitespace-delimited elements of s: the places where a run
\* of characters other than whitespace starts.
WhitespaceElements(s) ==
    Cardinality({i \in 1..Len(s) : s[i] \notin Whitespace /\ (i = 1 \/ s[i - 1] \in Whitespace)})

\* Between the first and the last directive of s, the only whitespace is
\* spaces and tabs.
BlankSeparated(s) ==
    \A i \in 1..Len(s) :
        s[i] \in Whitespace \ {" ", "\t"} =>
            \/ \A j \in 1..i : s[j] \in Whitespace
            \/ \A j \in i..Len(s) : s[j] \in Whitespace

\* C7 as stated: for any format, the empty one included, there are as many
\* names as the format has whitespace-delimited elements.
C7_NamesCountWhitespaceElements ==
    pc = "ready" => Len(_names) = WhitespaceElements(format)

\* C7 amended: there are as many names as the format has
\* whitespace-delimited elements when it has one at least and only spaces and
\* tabs separate them; an empty or whitespace-only format has one name.
C7_NamesCountBlankSeparatedElements ==
    pc = "ready" =>
        /\ WhitespaceElements(format) > 0 /\ BlankSeparated(format)
             => Len(_names) = WhitespaceElements(format)
        /\ WhitespaceElements(format) = 0 => Len(_names) = 1

\* Two directives after a line break, separated by a tab and a space, gave
\* two names.
C7_Witness ==
    /\ pc = "ready"
    /\ format = Chars("\n\t%h\t \\\"%r\\\" ")
    /\ Len(_names) = 2

(***************************************************************************)
(* SpecAlias: alias is called on a constructed parser with directive       *)
(* tokens, plain and bracketed.                                            *)
(***************************************************************************)

\* parser.alias(name) called on a constructed parser; the name it returns.
Alias(name) ==
    /\ pc = "ready"
    /\ entry' = name
    /\ result' = [kind |-> "name", value |-> alias(entry')]
    /\ UNCHANGED <<pc, format, use_friendly_names, _names, _pattern, _regex, line, parsed,
                   processVars, aggVars>>

MaxModifierLen == 2

\* The characters of the modifiers.
ModifierChars == {"a", "Z", "1", "-", "_", "."}

Modifiers == SeqsUpTo(ModifierChars, MaxModifierLen) \cup {Chars("User-Agent"), Chars("%d/%b-%Y")}

\* The letters that end a bracketed token: i, C and P are in the table with
\* the generic key, t and x are not.
FinalLetters == {"i", "C", "P", "t", "x"}

BracketedTokens == {Chars("%{") \o m \o <<"}", c>> : m \in Modifiers, c \in FinalLetters}

PlainTokens == {Chars("%h"), Chars("%>s"), Chars("%t"), Chars("%z"), Chars("-"), <<>>}

AliasTokens == BracketedTokens \cup PlainTokens

AliasFormats == {formats_common, Chars("%{User-Agent}i")}

NextAlias ==
    \/ \E fmt \in AliasFormats, friendly \in BOOLEAN : Construct(fmt, friendly)
    \/ ~Done /\ \E name \in AliasTokens : Alias(name)

SpecAlias == Init /\ [][NextAlias]_vars

\* t is a bracketed token %{X}c.
IsBracketed(t) ==
    Len(t) >= 4 /\ StartsWith(t, Chars("%{")) /\ t[Len(t) - 1] = "}"

\* The modifier X of the bracketed token %{X}c.
Modifier(t) == SubSeq(t, 3, Len(t) - 2)

\* The generic key %{}c of the bracketed token %{X}c.
GenericKey(t) == Chars("%{}") \o <<t[Len(t)]>>

\* The key under which the directive table holds the token t.
TableKey(t) == IF IsBracketed(t) THEN GenericKey(t) ELSE t

\* alias has been called and has returned.
Aliased == pc = "ready" /\ result.kind = "name"

\* C11: alias returns its argument unchanged for every token without an
\* entry in the directive table, bracketed tokens whose generic key is not
\* in the table included.
C11_UnknownTokenUnchanged ==
    Aliased /\ ~HasKey(TableKey(entry)) => result.value = entry

\* The letters and digits.
Alphanumeric ==
    LET s == Chars("abcdefghijklmnopqrstuvwxyzABCDEFGHIJKLMNOPQRSTUVWXYZ0123456789")
    IN  {s[i] : i \in 1..Len(s)}

\* s with every character that is not a letter or a digit replaced by '_'.
Normalized(s) == [i \in 1..Len(s) |-> IF s[i] \in Alphanumeric THEN s[i] ELSE "_"]

\* s with every hyphen replaced by '_', and no other character changed.
Unhyphenated(s) == [i \in 1..Len(s) |-> IF s[i] # "-" THEN s[i] ELSE "_"]

\* alias has returned for a bracketed token whose generic key is in the
\* table and that is not a time directive.
AliasedKnownBracketed ==
    /\ Aliased
    /\ IsBracketed(entry)
    /\ HasKey(GenericKey(entry))
    /\ entry[Len(entry)] # "t"

\* C12 as stated: for a bracketed token %{X}c whose generic key is in the
\* table and that is not the time directive, alias returns the base name,
\* '_' and X with every non-alphanumeric character replaced by '_'.
C12_ModifierNormalized ==
    AliasedKnownBracketed =>
        /\ result.value = Lookup(GenericKey(entry)) \o <<"_">> \o Normalized(Modifier(entry))
        /\ \A i \in 1..Len(result.value) : result.value[i] \in Alphanumeric \cup {"_"}

\* C12 amended: alias returns the base name, '_' and X with every hyphen
\* replaced by '_'; the result holds only letters, digits and underscores
\* when X holds only letters, digits, hyphens and underscores.
C12_ModifierHyphensReplaced ==
    AliasedKnownBracketed =>
        /\ result.value = Lookup(GenericKey(entry)) \o <<"_">> \o Unhyphenated(Modifier(entry))
        /\ (\A i \in 1..Len(Modifier(entry)) : Modifier(entry)[i] \in Alphanumeric \cup {"-", "_"})
             => \A i \in 1..Len(result.value) : result.value[i] \in Alphanumeric \cup {"_"}

\* alias was called with %{User-Agent}i and returned header_User_Agent.
C12_Witness ==
    /\ Aliased
    /\ entry = Chars("%{User-Agent}i")
    /\ result.value = Chars("header_User_Agent")

\* C13: for a bracketed time directive %{fmt}t, alias returns the base name
\* the table gives the time directive's generic key, '_' and fmt verbatim,
\* hyphens included.
C13_TimeModifierVerbatim ==
    Aliased /\ IsBracketed(entry) /\ entry[Len(entry)] = "t" =>
        /\ HasKey(GenericKey(entry))
        /\ result.value = Lookup(GenericKey(entry)) \o <<"_">> \o Modifier(entry)

(***************************************************************************)
(* The request time field: date.parse_date and date.parse_time.            *)
(***************************************************************************)

\* date.MONTHS: month abbreviation -> two-digit month number.
MONTHS ==
    << <<"Jan", "01">>, <<"Feb", "02">>, <<"Mar", "03">>, <<"Apr", "04">>,
       <<"May", "05">>, <<"Jun", "06">>, <<"Jul", "07">>, <<"Aug", "08">>,
       <<"Sep", "09">>, <<"Oct", "10">>, <<"Nov", "11">>, <<"Dec", "12">> >>

\* key in MONTHS
HasMonth(key) == \E k \in 1..Len(MONTHS) : Chars(MONTHS[k][1]) = key

\* MONTHS[key]
MonthOf(key) == Chars(MONTHS[CHOOSE k \in 1..Len(MONTHS) : Chars(MONTHS[k][1]) = key][2])

\* s[a:b] of Python for 0 <= a <= b: the slice is cut at the end of s.
Slice(s, a, b) ==
    LET hi == IF b < Len(s) THEN b ELSE Len(s)
    IN  IF hi <= a THEN <<>> ELSE SubSeq(s, a + 1, hi)

\* date.strip('[]'): drop the leading and trailing square brackets.
StripBrackets(s) ==
    LET keep == {i \in 1..Len(s) : s[i] \notin {"[", "]"}}
    IN  IF keep = {} THEN <<>>
        ELSE SubSeq(s, Min(keep), CHOOSE i \in keep : \A j \in keep : i >= j)

\* A variant of parse_date (for ParseDate): the fields are joined in the
\* order of the log line, day first.
ParseDateDayFirst(d) ==
    LET date == StripBrackets(d)
    IN  IF ~HasMonth(Slice(date, 3, 6)) THEN [kind |-> "error", error |-> "KeyError"]
        ELSE [kind |-> "date",
              timestamp |-> Slice(date, 0, 2) \o MonthOf(Slice(date, 3, 6)) \o Slice(date, 7, 11)
                            \o Slice(date, 12, 14) \o Slice(date, 15, 17) \o Slice(date, 18, 20),
              offset |-> Slice(date, 21, Len(date))]

\* date.parse_date(date): the pair (timestamp, offset), or the KeyError of
\* the month lookup.
ParseDate(d) ==
    LET date == StripBrackets(d)
    IN  IF ~HasMonth(Slice(date, 3, 6)) THEN [kind |-> "error", error |-> "KeyError"]
        ELSE [kind |-> "date",
              timestamp |-> Slice(date, 7, 11) \o MonthOf(Slice(date, 3, 6)) \o Slice(date, 0, 2)
                            \o Slice(date, 12, 14) \o Slice(date, 15, 17) \o Slice(date, 18, 20),
              offset |-> Slice(date, 21, Len(date))]

\* The decimal digits, in order.
Digits == Chars("0123456789")

\* s is a non-empty string of decimal digits.
IsDigits(s) == Len(s) > 0 /\ \A i \in 1..Len(s) : \E d \in 1..10 : Digits[d] = s[i]

\* The value of the decimal digit c.
DigitValue(c) == (CHOOSE d \in 1..10 : Digits[d] = c) - 1

\* The number a string of decimal digits denotes.
RECURSIVE DigitsValue(_)
DigitsValue(s) ==
    IF s = <<>> THEN 0
    ELSE 10 * DigitsValue(SubSeq(s, 1, Len(s) - 1)) + DigitValue(s[Len(s)])

\* int(s) accepts s: digits, after an optional sign, within optional
\* whitespace.
IsInt(s) ==
    LET t == Strip(s)
    IN  IF t # <<>> /\ t[1] \in {"+", "-"} THEN IsDigits(Tail(t)) ELSE IsDigits(t)

\* int(s), for a string that int accepts.
IntOf(s) ==
    LET t == Strip(s)
    IN  IF t[1] = "-" THEN 0 - DigitsValue(Tail(t))
        ELSE IF t[1] = "+" THEN DigitsValue(Tail(t))
        ELSE DigitsValue(t)

\* The number of days of a month, as datetime.datetime checks the day.
DaysInMonth(year, month) ==
    IF month = 2
    THEN IF year % 4 = 0 /\ (year % 100 # 0 \/ year % 400 = 0) THEN 29 ELSE 28
    ELSE IF month \in {4, 6, 9, 11} THEN 30 ELSE 31

\* datetime.datetime(...) accepts the fields.
ValidDateTime(year, month, day, hour, minute, second) ==
    /\ year \in 1..9999
    /\ month \in 1..12
    /\ day >= 1 /\ day <= DaysInMonth(year, month)
    /\ hour \in 0..23
    /\ minute \in 0..59
    /\ second \in 0..59

\* A variant of FixedOffset (for FixedOffset): the minutes are added
\* without their sign.
FixedOffsetUnsignedMinutes(name, hours, minutes) ==
    [utcoffset |-> 60 * hours + (IF minutes < 0 THEN 0 - minutes ELSE minutes),
     tzname |-> name, dst |-> 0]

\* FixedOffset(name, hours, minutes): utcoffset() in minutes, tzname() and
\* dst() in minutes.
FixedOffset(name, hours, minutes) ==
    [utcoffset |-> 60 * hours + minutes, tzname |-> name, dst |-> 0]

\* date.parse_time(date): the datetime, or the error raised.
ParseTime(d) ==
    LET date   == StripBrackets(d)
        tzdate == Strip(Slice(date, 21, Len(date)))
        sign   == Slice(date, 21, 22) \o <<"1">>
        hours  == Slice(date, 22, 24)
        mins   == Slice(date, 24, Len(date))
        month  == Slice(date, 3, 6)
        fields == <<Slice(date, 7, 11), Slice(date, 0, 2), Slice(date, 12, 14),
                    Slice(date, 15, 17), Slice(date, 18, 20)>>
    IN  IF ~(IsInt(sign) /\ IsInt(hours) /\ IsInt(mins))
        THEN [kind |-> "error", error |-> "ValueError"]
        ELSE IF ~IsInt(fields[1]) THEN [kind |-> "error", error |-> "ValueError"]
        ELSE IF ~HasMonth(month) THEN [kind |-> "error", error |-> "KeyError"]
        ELSE IF \E k \in 2..5 : ~IsInt(fields[k]) THEN [kind |-> "error", error |-> "ValueError"]
        ELSE IF ~ValidDateTime(IntOf(fields[1]), IntOf(MonthOf(month)), IntOf(fields[2]),
                               IntOf(fields[3]), IntOf(fields[4]), IntOf(fields[5]))
        THEN [kind |-> "error", error |-> "ValueError"]
        ELSE [kind |-> "instant",
              year |-> IntOf(fields[1]), month |-> IntOf(MonthOf(month)),
              day |-> IntOf(fields[2]), hour |-> IntOf(fields[3]),
              minute |-> IntOf(fields[4]), second |-> IntOf(fields[5]),
              microsecond |-> 0,
              tzinfo |-> FixedOffset(tzdate, IntOf(sign) * IntOf(hours),
                                     IntOf(sign) * IntOf(mins))]

(***************************************************************************)
(* SpecDate: the server writes a request time from its fields, and         *)
(* parse_date or parse_time is called on it.                               *)
(***************************************************************************)

\* The month abbreviations the server writes, January first.
MonthNames ==
    <<"Jan", "Feb", "Mar", "Apr", "May", "Jun", "Jul", "Aug", "Sep", "Oct", "Nov", "Dec">>

\* The number n written with w decimal digits.
RECURSIVE Render(_, _)
Render(n, w) == IF w = 0 THEN <<>> ELSE Render(n \div 10, w - 1) \o <<Digits[(n % 10) + 1]>>

\* The offset of the entry e as the server writes it: sign, hours, minutes.
WriteOffset(e) == <<IF e.sign < 0 THEN "-" ELSE "+">> \o Render(e.hh, 2) \o Render(e.mm, 2)

\* The request time of the entry e as the server writes it:
\* [DD/Mon/YYYY:HH:MM:SS ZZZZZ].
WriteTimestamp(e) ==
    <<"[">> \o Render(e.day, 2) \o <<"/">> \o Chars(MonthNames[e.month]) \o <<"/">>
        \o Render(e.year, 4) \o <<":">> \o Render(e.hour, 2) \o <<":">> \o Render(e.minute, 2)
        \o <<":">> \o Render(e.second, 2) \o <<" ">> \o WriteOffset(e) \o <<"]">>

\* The offsets from UTC the server writes: sign, hours, minutes.
Offsets == {<<1, 0, 0>>, <<-1, 5, 0>>, <<1, 5, 30>>, <<-1, 3, 30>>, <<1, 14, 0>>, <<-1, 0, 45>>}

\* The request times: calendar dates and times of day, with an offset.
TimestampEntries ==
    LET all == {[year |-> y, month |-> m, day |-> d, hour |-> h, minute |-> mi,
                 second |-> sec, sign |-> o[1], hh |-> o[2], mm |-> o[3]] :
                    y \in {2006, 2012}, m \in 1..12, d \in {5, 29, 31}, h \in {10, 23},
                    mi \in {0, 51}, sec \in {44, 59}, o \in Offsets}
    IN  {e \in all : e.day <= DaysInMonth(e.year, e.month)}

\* parse_date(date) called on the request time written from e.
CallParseDate(e) ==
    /\ pc = "new"
    /\ result = NoResult
    /\ entry' = e
    /\ line' = WriteTimestamp(entry')
    /\ result' = [kind |-> "parse_date", value |-> ParseDate(line')]
    /\ UNCHANGED <<pc, format, use_friendly_names, _names, _pattern, _regex, parsed,
                   processVars, aggVars>>

\* parse_time(date) called on the request time written from e.
CallParseTime(e) ==
    /\ pc = "new"
    /\ result = NoResult
    /\ entry' = e
    /\ line' = WriteTimestamp(entry')
    /\ result' = [kind |-> "parse_time", value |-> ParseTime(line')]
    /\ UNCHANGED <<pc, format, use_friendly_names, _names, _pattern, _regex, parsed,
                   processVars, aggVars>>

NextDate ==
    \/ \E e \in TimestampEntries : CallParseDate(e)
    \/ \E e \in TimestampEntries : CallParseTime(e)

SpecDate == Init /\ [][NextDate]_vars

\* C14: for a request time [DD/Mon/YYYY:HH:MM:SS ZZZZZ], parse_date returns
\* YYYY, the two-digit month number, DD, HH, MM and SS in a row, and the
\* offset as written; for [05/Dec/2006:10:51:44 +0000] it returns
\* ('20061205105144', '+0000').
C14_ParseDateRearranges ==
    result.kind = "parse_date" =>
        /\ result.value.kind = "date"
        /\ result.value.timestamp = Render(entry.year, 4) \o Render(entry.month, 2)
                \o Render(entry.day, 2) \o Render(entry.hour, 2)
                \o Render(entry.minute, 2) \o Render(entry.second, 2)
        /\ result.value.offset = WriteOffset(entry)
        /\ line = Chars("[05/Dec/2006:10:51:44 +0000]")
             => result.value = [kind |-> "date", timestamp |-> Chars("20061205105144"),
                                offset |-> Chars("+0000")]

\* parse_date was called on [05/Dec/2006:10:51:44 +0000] and returned
\* ('20061205105144', '+0000').
C14_Witness ==
    /\ result.kind = "parse_date"
    /\ line = Chars("[05/Dec/2006:10:51:44 +0000]")
    /\ result.value.timestamp = Chars("20061205105144")
    /\ result.value.offset = Chars("+0000")

\* C15: for a request time with offset sign s, hours hh and minutes mm,
\* parse_time returns an instant whose year, month, day, hour, minute and
\* second are the fields as written, not moved to UTC, whose UTC offset is
\* s * (60 * hh + mm) minutes, whose zone name is the offset as written and
\* whose DST adjustment is zero.
C15_ParseTimeKeepsFields ==
    result.kind = "parse_time" =>
        /\ result.value.kind = "instant"
        /\ <<result.value.year, result.value.month, result.value.day>>
             = <<entry.year, entry.month, entry.day>>
        /\ <<result.value.hour, result.value.minute, result.value.second>>
             = <<entry.hour, entry.minute, entry.second>>
        /\ result.value.microsecond = 0
        /\ result.value.tzinfo.utcoffset = entry.sign * (60 * entry.hh + entry.mm)
        /\ result.value.tzinfo.tzname = WriteOffset(entry)
        /\ result.value.tzinfo.dst = 0

\* parse_time was called on a time late in the day with a negative offset
\* of hours and minutes, and returned the fields as written with the
\* offset of -210 minutes.
C15_Witness ==
    /\ result.kind = "parse_time"
    /\ line = Chars("[29/Feb/2012:23:51:59 -0330]")
    /\ result.value.kind = "instant"
    /\ result.value.day = 29 /\ result.value.hour = 23
    /\ result.value.tzinfo.utcoffset = -210

(***************************************************************************)
(* SpecTrim: a parser parses one line that has whitespace before and after *)
(* its text.                                                               *)
(***************************************************************************)

\* The text of the lines.
TrimCores == {<<>>, Chars("a"), Chars("a b"), Chars("[a b]"), Chars("\"a\" b")}

\* The whitespace before and after the text.
TrimPads == {<<>>, Chars(" "), Chars("\n"), Chars("\t \r")}

TrimLines == {a \o c \o b : a \in TrimPads, b \in TrimPads, c \in TrimCores}

NextTrim ==
    \/ \E fmt \in KindFormats, friendly \in BOOLEAN : Construct(fmt, friendly)
    \/ ~Done /\ \E ln \in TrimLines : Parse(<<>>, ln)

SpecTrim == Init /\ [][NextTrim]_vars

\* The string s holds the string p somewhere.
Contains(s, p) == \E i \in 1..(Len(s) + 1) : OccursAt(s, p, i)

\* C16: parse matches the line without its leading and trailing
\* whitespace; when that does not match the pattern it raises the error,
\* whose message holds the trimmed line and the pattern, and returns no
\* record; when it matches, it returns a record.
C16_TrimmedMismatchRaises ==
    Done =>
        IF ReMatch(_regex, Strip(line)) = None
        THEN /\ result.kind = "error"
             /\ Contains(result.message,
                         Chars("Unable to parse: ") \o Strip(line) \o Chars(" with the "))
             /\ Contains(result.message,
                         Chars(" with the ") \o _pattern \o Chars(" regular expression"))
        ELSE result.kind = "record"

\* A line with whitespace around its text was parsed and the error was
\* raised, with the trimmed line in its message.
C16_Witness ==
    /\ Done
    /\ result.kind = "error"
    /\ line = Chars("\t \ra b\n")
    /\ Contains(result.message, Chars(": a b with the ^"))

\* A line that matches only once it is trimmed was parsed into a record.
C16_TrimmedMatches ==
    /\ Done
    /\ result.kind = "record"
    /\ line # Strip(line)
    /\ ReMatch(_regex, line) = None

(***************************************************************************)
(* SpecProcess: processor.process(stream, parser, processors) on a         *)
(* constructed parser.  Each processor records the call it receives.       *)
(***************************************************************************)

\* process(stream, parser, processors) is called with the lines s and n
\* processors.
Process(s, n) ==
    /\ pc = "ready"
    /\ ppc = "idle"
    /\ stream' = s
    /\ processors' = n
    /\ index' = 0
    /\ processor' = 0
    /\ calls' = <<>>
    /\ ppc' = "for_line"
    /\ UNCHANGED <<pc, format, use_friendly_names, _names, _pattern, _regex, entry, line,
                   result, parsed, aggVars>>

\* for line in stream: data = parser.parse(line).  The error parse raises
\* is not caught: it ends process.
NextLine ==
    /\ ppc = "for_line"
    /\ index < Len(stream)
    /\ index' = index + 1
    /\ line' = stream[index']
    /\ result' = ParseLine(_names, _pattern, _regex, line')
    /\ parsed' = Append(parsed, line')
    /\ processor' = 0
    /\ ppc' = IF result'.kind = "error" THEN "raised"
              ELSE IF processors = 0 THEN "for_line" ELSE "for_processor"
    /\ UNCHANGED <<pc, format, use_friendly_names, _names, _pattern, _regex, entry, stream,
                   processors, calls, aggVars>>

\* A variant of the inner loop (for CallProcessor): the processors are
\* called last first.
CallProcessorReversed ==
    /\ ppc = "for_processor"
    /\ processor < processors
    /\ processor' = processor + 1
    /\ calls' = Append(calls, [processor |-> processors - processor, line |-> index,
                               data |-> result.data])
    /\ ppc' = IF processor' = processors THEN "for_line" ELSE "for_processor"
    /\ UNCHANGED <<pc, format, use_friendly_names, _names, _pattern, _regex, entry, line,
                   result, parsed, stream, processors, index, aggVars>>

\* for processor in processors: processor.process(data)
CallProcessor ==
    /\ ppc = "for_processor"
    /\ processor < processors
    /\ processor' = processor + 1
    /\ calls' = Append(calls, [processor |-> processor', line |-> index,
                               data |-> result.data])
    /\ ppc' = IF processor' = processors THEN "for_line" ELSE "for_processor"
    /\ UNCHANGED <<pc, format, use_friendly_names, _names, _pattern, _regex, entry, line,
                   result, parsed, stream, processors, index, aggVars>>

\* The stream is exhausted: process returns.
Return ==
    /\ ppc = "for_line"
    /\ index = Len(stream)
    /\ ppc' = "returned"
    /\ UNCHANGED <<pc, format, use_friendly_names, _names, _pattern, _regex, entry, line,
                   result, parsed, stream, processors, index, processor, calls, aggVars>>

MaxStreamLen == 3
MaxProcessors == 2

\* The lines of the streams: two that match '%h %b' and one that does not.
StreamLines == {Chars("192.168.0.1 561\n"), Chars("192.168.0.2 -\n"), Chars("junk\n")}

Streams == SeqsUpTo(StreamLines, MaxStreamLen)

ProcessFormats == {Chars("%h %b")}

NextProcess ==
    \/ \E fmt \in ProcessFormats, friendly \in BOOLEAN : Construct(fmt, friendly)
    \/ \E s \in Streams, n \in 0..MaxProcessors : Process(s, n)
    \/ NextLine
    \/ CallProcessor
    \/ Return

SpecProcess == Init /\ [][NextProcess]_vars

\* process has ended: it has returned, or the error of parse has left it.
ProcessEnded == ppc \in {"returned", "raised"}

\* The line matches the pattern of the parser.
Matches(ln) == ReMatch(_regex, Strip(ln)) # None

\* C17: a line that does not match does not end the processing: when
\* process has ended, every matching line of the stream, those after a line
\* that does not match included, has been handed to every processor.
C17_LaterLinesProcessed ==
    ProcessEnded =>
        \A i \in 1..Len(stream) :
            Matches(stream[i]) =>
                \A p \in 1..processors :
                    \E c \in 1..Len(calls) : calls[c].line = i /\ calls[c].processor = p

\* C20: the calls process has made are, in order, those of the lines of the
\* stream in stream order and, for each line, one call of each processor in
\* list order with the record parsed from that line: all processors handle
\* line i before any handles line i+1.  When process returns, every line
\* has been handled by every processor.
C20_CallsInStreamAndListOrder ==
    /\ \A c \in 1..Len(calls) :
          LET i == ((c - 1) \div processors) + 1
          IN  /\ i <= index
              /\ calls[c].line = i
              /\ calls[c].processor = ((c - 1) % processors) + 1
              /\ ParseLine(_names, _pattern, _regex, stream[i]) =
                    [kind |-> "record", data |-> calls[c].data]
    /\ ppc = "for_processor" => Len(calls) = (index - 1) * processors + processor
    /\ ppc = "for_line" => Len(calls) = index * processors
    /\ ppc = "returned" => Len(calls) = Len(stream) * processors

\* process has returned from a stream of two different lines handled by two
\* processors: four calls.
C20_Witness ==
    /\ ppc = "returned"
    /\ Len(stream) = 2
    /\ stream[1] # stream[2]
    /\ processors = 2
    /\ Len(calls) = 4
    /\ calls[3].data # calls[1].data

(***************************************************************************)
(* SpecReparse: one parser parses several lines, one after the other.      *)
(***************************************************************************)

MaxParses == 3

ReparseFormats ==
    {Chars("%h"), Chars("%t %U"), Chars("\\\"%r\\\" %h"), Chars("%h %h")}

ReparseLines ==
    {<<>>, Chars("a"), Chars(" a  b\n"), Chars("[1 2] /x y"), Chars("\"a b\" c")}

NextReparse ==
    \/ \E fmt \in ReparseFormats, friendly \in BOOLEAN : Construct(fmt, friendly)
    \/ Len(parsed) < MaxParses /\ \E ln \in ReparseLines : Parse(<<>>, ln)

SpecReparse == Init /\ [][NextReparse]_vars

\* C18: after any sequence of parse calls, names() and pattern() return
\* what they returned right after the construction from the format, the
\* compiled expression is the same, and the result of the last call is the
\* one a newly constructed parser gives for that line, whatever was parsed
\* before.
C18_ParserUnchangedByParsing ==
    pc = "ready" =>
        /\ _names = Names(format, use_friendly_names)
        /\ _pattern = Pattern(format)
        /\ _regex = ReCompile(Pattern(format))
        /\ parsed # <<>> =>
             result = ParseLine(Names(format, use_friendly_names), Pattern(format),
                                ReCompile(Pattern(format)), parsed[Len(parsed)])

\* A line was parsed into a record, then a line that does not match, then
\* the first line again, into a record.
C18_Witness ==
    /\ pc = "ready"
    /\ Len(parsed) = 3
    /\ parsed[1] = parsed[3]
    /\ Matches(parsed[1])
    /\ ~Matches(parsed[2])
    /\ result.kind = "record"

(***************************************************************************)
(* Tokens with an escaped-quote marker on one side only (SpecFormat).      *)
(***************************************************************************)

\* The token has a marker at its start and none at its end, at its end and
\* none at its start.
LeadingOnly(tok) == LeadingMarker(tok) /\ ~TrailingMarker(From(tok, 3))
TrailingOnly(tok) == TrailingMarker(tok) /\ ~LeadingMarker(tok)

\* The field name computed from the token t.
FieldName(t) == IF use_friendly_names THEN alias(t) ELSE t

\* C19 as stated: for a token with a marker on one side only, the marker
\* that is present is removed, on whichever side it is, before the field
\* name is computed.
C19_PresentMarkerRemoved ==
    pc = "ready" =>
        \A i \in 1..Len(Elements(format)) :
            LET tok == Elements(format)[i]
            IN  LeadingOnly(tok) \/ TrailingOnly(tok)
                    => _names[i] = FieldName(MarkersRemoved(tok))

\* What _parse_format does: a token with only a leading marker has the
\* leading marker removed before the field name is computed; a token with
\* only a trailing marker keeps it: the field name is computed from the token
\* as it is.
C19_OnlyLeadingMarkerRemoved ==
    pc = "ready" =>
        \A i \in 1..Len(Elements(format)) :
            LET tok == Elements(format)[i]
            IN  /\ LeadingOnly(tok) => _names[i] = FieldName(From(tok, 3))
                /\ TrailingOnly(tok) => _names[i] = FieldName(tok)

\* Friendly names were computed for a token with only a leading marker and
\* a token with only a trailing marker.
C19_Witness ==
    /\ pc = "ready"
    /\ use_friendly_names
    /\ format = Chars("\\\"%b \t%t\\\"")
    /\ _names = <<Chars("response_bytes_clf"), Chars("%t\\\"")>>

(***************************************************************************)
(* The processors (processor/time.py, bandwidth.py, status.py): each       *)
(* process(data) call is given the dictionary parse returned for a line.   *)
(***************************************************************************)

\* The dictionary parse returns for the line the server wrote from the
\* entry e, under the format '%h %t %b \"%r\" %>s'.
LogData(e) ==
    (Chars("%h") :> e.h) @@ (Chars("%t") :> WriteTimestamp(e.time)) @@ (Chars("%b") :> e.b)
        @@ (Chars("%r") :> e.r) @@ (Chars("%>s") :> e.s)

\* The days of the years before the year, as datetime counts them.
DaysBeforeYear(year) ==
    LET y == year - 1 IN y * 365 + (y \div 4) - (y \div 100) + (y \div 400)

\* The days of the months of the year before the month.
RECURSIVE DaysBeforeMonth(_, _)
DaysBeforeMonth(year, month) ==
    IF month = 1 THEN 0
    ELSE DaysBeforeMonth(year, month - 1) + DaysInMonth(year, month - 1)

\* The seconds of a day.
DaySeconds == 86400

\* The instant of a date and time of day written with an offset of the
\* given minutes from UTC: the day of UTC, counted from 1 January of year
\* 1, and the second of that day.
Instant(year, month, day, hour, minute, second, offset) ==
    LET seconds == hour * 3600 + minute * 60 + second - 60 * offset
    IN  <<DaysBeforeYear(year) + DaysBeforeMonth(year, month) + day + (seconds \div DaySeconds),
          seconds % DaySeconds>>

\* The instant x is earlier than the instant y.
Earlier(x, y) == x[1] < y[1] \/ (x[1] = y[1] /\ x[2] < y[2])

\* The seconds from the instant x to the instant y.
SecondsBetween(x, y) == (y[1] - x[1]) * DaySeconds + (y[2] - x[2])

\* The instant of an aware datetime: its fields less its utcoffset().  Two
\* aware datetimes are compared, and subtracted, as their instants are.
UTCInstant(t) ==
    Instant(t.year, t.month, t.day, t.hour, t.minute, t.second, t.tzinfo.utcoffset)

\* A variant of the comparison (for Before): the fields are compared as
\* written, whatever the offsets.
BeforeWallClock(a, b) ==
    Earlier(Instant(a.year, a.month, a.day, a.hour, a.minute, a.second, 0),
            Instant(b.year, b.month, b.day, b.hour, b.minute, b.second, 0))

\* a < b for two aware datetimes (b > a likewise).
Before(a, b) == Earlier(UTCInstant(a), UTCInstant(b))

\* LogTimeProcessor.process(data), after parse_time returned time.
LogTimeUpdate(time) ==
    /\ last_time' = time
    /\ start_time' = IF start_time = NoValue \/ Before(time, start_time) THEN time ELSE start_time
    /\ stop_time' = IF stop_time = NoValue \/ Before(stop_time, time) THEN time ELSE stop_time

\* LogTimeProcessor.total_seconds()
total_seconds ==
    IF start_time = NoValue THEN 0
    ELSE SecondsBetween(UTCInstant(start_time), UTCInstant(stop_time))

\* The number of records a specification gives to a processor.
MaxRecords == 3

\* ltp.process(data), for the data of the line written from the entry e:
\* parse_time raises before any field is assigned, or the fields are updated.
LogTimeProcess(e) ==
    /\ pc = "new"
    /\ Len(processed) < MaxRecords
    /\ entry' = e
    /\ \E time \in {ParseTime(LogData(entry')[Chars("%t")])} :
           IF time.kind = "error"
           THEN /\ result' = time
                /\ UNCHANGED <<timeVars, processed>>
           ELSE /\ result' = [kind |-> "processed"]
                /\ LogTimeUpdate(time)
                /\ processed' = Append(processed, entry')
    /\ UNCHANGED <<pc, format, use_friendly_names, _names, _pattern, _regex, line, parsed,
                   processVars, bandwidthVars, statusVars, asked, output, resolverVars>>

\* A request time of February 2012.
TimeEntry(day, hour, minute, second, sign, hh, mm) ==
    [year |-> 2012, month |-> 2, day |-> day, hour |-> hour, minute |-> minute,
     second |-> second, sign |-> sign, hh |-> hh, mm |-> mm]

\* A log entry: client, request time, response size, request line, status.
LogEntry(h, time, b, r, s) ==
    [h |-> Chars(h), time |-> time, b |-> Chars(b), r |-> Chars(r), s |-> Chars(s)]

\* Request times whose order as instants is not their order as written:
\* 15:25:43, 15:25:58, 15:25:50 and 15:25:43 of the 18th in UTC, 11:00:00
\* of the 18th in UTC, and one of a day February does not have.
LogTimes ==
    {TimeEntry(18, 10, 25, 43, -1, 5, 0), TimeEntry(18, 10, 25, 58, -1, 5, 0),
     TimeEntry(18, 20, 55, 50, 1, 5, 30), TimeEntry(18, 15, 25, 43, 1, 0, 0),
     TimeEntry(19, 1, 0, 0, 1, 14, 0), TimeEntry(30, 10, 25, 43, -1, 5, 0)}

LogTimeEntries == {LogEntry("192.168.0.1", t, "561", "GET / HTTP/1.1", "200") : t \in LogTimes}

NextLogTime == \E e \in LogTimeEntries : LogTimeProcess(e)

SpecLogTime == Init /\ [][NextLogTime]_vars

\* The instant the server served the entry e at, from the fields of e.
EntryInstant(e) ==
    Instant(e.time.year, e.time.month, e.time.day, e.time.hour, e.time.minute, e.time.second,
            e.time.sign * (60 * e.time.hh + e.time.mm))

\* The datetime t has the date, the time of day and the offset of the entry e.
IsTimeOf(t, e) ==
    /\ <<t.year, t.month, t.day, t.hour, t.minute, t.second>>
           = <<e.time.year, e.time.month, e.time.day, e.time.hour, e.time.minute, e.time.second>>
    /\ t.tzinfo.utcoffset = e.time.sign * (60 * e.time.hh + e.time.mm)

\* C21: once a LogTimeProcessor has processed records (with well-formed
\* request times, in any order), start_time is the earliest and stop_time
\* the latest instant among them, last_time is the time of the record
\* processed last, start_time <= stop_time, and total_seconds() is their
\* difference, which is not negative; before any record total_seconds()
\* is 0.
C21_TimeRange ==
    IF processed = <<>> THEN total_seconds = 0
    ELSE /\ start_time # NoValue /\ stop_time # NoValue /\ last_time # NoValue
         /\ \E k \in 1..Len(processed) :
                IsTimeOf(start_time, processed[k])
                    /\ \A j \in 1..Len(processed) :
                           ~Earlier(EntryInstant(processed[j]), EntryInstant(processed[k]))
         /\ \E k \in 1..Len(processed) :
                IsTimeOf(stop_time, processed[k])
                    /\ \A j \in 1..Len(processed) :
                           ~Earlier(EntryInstant(processed[k]), EntryInstant(processed[j]))
         /\ IsTimeOf(last_time, processed[Len(processed)])
         /\ ~Before(stop_time, start_time)
         /\ total_seconds = SecondsBetween(UTCInstant(start_time), UTCInstant(stop_time))
         /\ total_seconds >= 0

\* Three records arrived out of order: the last processed is neither the
\* earliest nor the latest, and the earliest was written with the latest
\* date.
C21_Witness ==
    /\ Len(processed) = 3
    /\ processed[1].time = TimeEntry(18, 10, 25, 58, -1, 5, 0)
    /\ processed[2].time = TimeEntry(19, 1, 0, 0, 1, 14, 0)
    /\ processed[3].time = TimeEntry(18, 20, 55, 50, 1, 5, 30)
    /\ IsTimeOf(start_time, processed[2])
    /\ IsTimeOf(stop_time, processed[1])
    /\ total_seconds = 15958

(***************************************************************************)
(* BandwidthProcessor (processor/bandwidth.py)                             *)
(***************************************************************************)

\* BandwidthProcessor._scales: each factor as a fraction.
_scales ==
    ("B/s" :> [num |-> 1, den |-> 1]) @@ ("kB/s" :> [num |-> 1, den |-> 1000])
        @@ ("MB/s" :> [num |-> 1, den |-> 1000000])
        @@ ("MB/month" :> [num |-> 2592000, den |-> 1000000])

\* A variant of the update (for BandwidthUpdate): last_bytes keeps its
\* value when data['%b'] is no integer.
BandwidthUpdateNoReset(data) ==
    IF IsInt(data[Chars("%b")])
    THEN /\ last_bytes' = [kind |-> "int", value |-> IntOf(data[Chars("%b")])]
         /\ bytes' = bytes + last_bytes'.value
    ELSE UNCHANGED <<last_bytes, bytes>>

\* BandwidthProcessor.process(data), after LogTimeProcessor.process
\* returned: last_bytes is None, then int(data['%b']) when that is an
\* integer, which is added to bytes.
BandwidthUpdate(data) ==
    IF IsInt(data[Chars("%b")])
    THEN /\ last_bytes' = [kind |-> "int", value |-> IntOf(data[Chars("%b")])]
         /\ bytes' = bytes + last_bytes'.value
    ELSE /\ last_bytes' = NoValue
         /\ bytes' = bytes

\* bwp.bandwidth(scale, _bytes), as a fraction; _bytes is None by default.
bandwidth(scale, _bytes) ==
    LET sec == total_seconds
    IN  IF sec = 0 THEN [num |-> 0, den |-> 1]
        ELSE [num |-> _scales[scale].num * (IF _bytes = NoValue THEN bytes ELSE _bytes.value),
              den |-> _scales[scale].den * sec]

\* bwp.process(data), for the data of the line written from the entry e.
BandwidthProcess(e) ==
    /\ pc = "new"
    /\ Len(processed) < MaxRecords
    /\ entry' = e
    /\ \E time \in {ParseTime(LogData(entry')[Chars("%t")])} :
           IF time.kind = "error"
           THEN /\ result' = time
                /\ UNCHANGED <<timeVars, bytes, last_bytes, processed>>
           ELSE /\ result' = [kind |-> "processed"]
                /\ LogTimeUpdate(time)
                /\ BandwidthUpdate(LogData(entry'))
                /\ processed' = Append(processed, entry')
    /\ UNCHANGED <<pc, format, use_friendly_names, _names, _pattern, _regex, line, parsed,
                   processVars, ip_bytes, statusVars, asked, output, resolverVars>>

\* Request times 15 seconds apart, and one of a day February does not
\* have.
BandwidthTimes ==
    {TimeEntry(18, 10, 25, 43, -1, 5, 0), TimeEntry(18, 10, 25, 58, -1, 5, 0),
     TimeEntry(30, 10, 25, 43, -1, 5, 0)}

\* The response sizes the server writes: a number, 0, and '-' for none.
Sizes == {"561", "24", "0", "-"}

BandwidthEntries ==
    {LogEntry("192.168.0.1", t, b, "GET / HTTP/1.1", "200") : t \in BandwidthTimes, b \in Sizes}

NextBandwidth == \E e \in BandwidthEntries : BandwidthProcess(e)

SpecBandwidth == Init /\ [][NextBandwidth]_vars

\* The sum of the integer response sizes of the first n entries of s.
RECURSIVE SumOfSizes(_, _)
SumOfSizes(s, n) ==
    IF n = 0 THEN 0
    ELSE SumOfSizes(s, n - 1) + (IF IsDigits(s[n].b) THEN DigitsValue(s[n].b) ELSE 0)

\* The scales of _scales.
Scales == {"B/s", "kB/s", "MB/s", "MB/month"}

\* C22: bytes is the sum of the integer response sizes of the processed
\* records; a record whose size is not an integer ('-') adds nothing to
\* bytes, leaves last_bytes None and still counts for the tracked time
\* range; bandwidth() is 0 whenever the tracked span is 0 seconds.
C22_BytesSummed ==
    /\ bytes = SumOfSizes(processed, Len(processed))
    /\ processed # <<>> =>
           LET last == processed[Len(processed)]
           IN  /\ IsDigits(last.b) => last_bytes = [kind |-> "int", value |-> DigitsValue(last.b)]
               /\ ~IsDigits(last.b) => last_bytes = NoValue
               /\ IsTimeOf(last_time, last)
    /\ C21_TimeRange
    /\ total_seconds = 0 => \A scale \in Scales : bandwidth(scale, NoValue).num = 0

\* A record without a size came last, after the span and bytes were set:
\* it moved stop_time and left bytes as they were.
C22_Witness ==
    /\ Len(processed) = 3
    /\ processed[1].b = Chars("561") /\ processed[2].b = Chars("24")
    /\ processed[3].b = Chars("-")
    /\ processed[1].time = processed[2].time
    /\ bytes = 585
    /\ last_bytes = NoValue
    /\ IsTimeOf(stop_time, processed[3])
    /\ total_seconds = 15
    /\ bandwidth("B/s", NoValue) = [num |-> 585, den |-> 15]

\* One record: bytes are counted and the span is 0 seconds.
C22_ZeroSpan ==
    /\ Len(processed) = 1 /\ bytes = 561 /\ total_seconds = 0
    /\ bandwidth("kB/s", NoValue) = [num |-> 0, den |-> 1]

(***************************************************************************)
(* Resolver (resolve.py): reverse-DNS names, cached in the class.          *)
(***************************************************************************)

\* Resolver.REGEXPS: each short name with its regexps.
REGEXPS ==
    << <<"feedburner", <<".*rate-limited-proxy-.*.google.com.*">> >>,
       <<"googlebot", <<".*googlebot.*">> >>,
       <<"yandex", <<".*yandex.*">> >>,
       <<"baiduspider", <<".*baiduspider.*">> >>,
       <<"msnbot", <<".*msnbot.*">> >> >>

\* What socket.gethostbyaddr gives for the addresses of the model: the
\* triple (hostname, aliaslist, ipaddrlist), or the error it raises.
Hosts ==
    << <<"66.249.68.33", "crawl-66-249-68-33.googlebot.com">>,
       <<"198.41.0.4", "a.root-servers.net">>,
       <<"65.55.0.1", "msnbot-65-55-0-1.googlebot.com">>,
       <<"192.168.0.1", "herror">>,
       <<"example", "gaierror">> >>

\* The addresses resolve is called with.
Addresses == {Chars(Hosts[k][1]) : k \in 1..Len(Hosts)}

\* socket.gethostbyaddr(ip)
gethostbyaddr(ip) ==
    LET h == Hosts[CHOOSE k \in 1..Len(Hosts) : Chars(Hosts[k][1]) = ip][2]
    IN  IF h \in {"herror", "gaierror"} THEN [kind |-> "error", error |-> h]
        ELSE [kind |-> "host", value |-> <<Chars(h), <<>>, <<ip>> >>]

\* The names the cache can hold for the addresses of the model.
CachedNames ==
    Addresses \cup {Chars(Hosts[k][2]) : k \in 1..Len(Hosts)}
        \cup {Chars(REGEXPS[k][1]) : k \in 1..Len(REGEXPS)}

\* regexp.match(name) for some regexp of the k-th entry of REGEXPS,
\* tabulated for the names the cache can hold.
RegexpsMatch ==
    [k \in 1..Len(REGEXPS) |->
        [name \in CachedNames |->
            \E r \in 1..Len(REGEXPS[k][2]) :
                ReMatch(ReCompile(Chars(REGEXPS[k][2][r])), name) # None]]

\* The orders REGEXPS.items() can be iterated in: a dictionary has none
\* of its own.
ItemOrders == Permutations(1..Len(REGEXPS))

\* _smart_resolve: the name after the entries order[k..] of REGEXPS were
\* tried in turn, each on the name the earlier ones left.
RECURSIVE SmartName(_, _, _)
SmartName(name, order, k) ==
    IF k > Len(REGEXPS) THEN name
    ELSE SmartName(IF RegexpsMatch[order[k]][name] THEN Chars(REGEXPS[order[k]][1]) ELSE name,
                   order, k + 1)

\* The cache after self.IP[ip] = value.
Store(cache, ip, value) == (ip :> value) @@ cache

\* A variant of the lookup (for Lookup1): a failed lookup is not cached.
Lookup1NoFailure(cache, smart, ip, order) ==
    LET found == gethostbyaddr(ip)
    IN  IF found.kind = "error" THEN cache
        ELSE IF smart
        THEN Store(cache, ip, <<SmartName(found.value[1], order, 1), found.value[2],
                                found.value[3]>>)
        ELSE Store(cache, ip, found.value)

\* The body of `if ip not in self.IP`: the cache after the lookup of ip by
\* a resolver with the given _smart, REGEXPS.items() iterating in order.
Lookup1(cache, smart, ip, order) ==
    LET found == gethostbyaddr(ip)
    IN  IF found.kind = "error" THEN Store(cache, ip, <<ip, <<>>, <<ip>> >>)
        ELSE IF smart
        THEN Store(cache, ip, <<SmartName(found.value[1], order, 1), found.value[2],
                                found.value[3]>>)
        ELSE Store(cache, ip, found.value)

\* The number of Resolver.resolve calls of a specification.
MaxResolves == 2

\* Resolver(smart).resolve(ip)
ResolverResolve(smart, ip) ==
    /\ pc = "new"
    /\ Len(resolves) < MaxResolves
    /\ IF ip \in DOMAIN IP
       THEN UNCHANGED <<IP, lookups>>
       ELSE /\ lookups' = Append(lookups, ip)
            /\ \E order \in (IF smart /\ gethostbyaddr(ip).kind = "host"
                             THEN ItemOrders ELSE {<<>>}) :
                   IP' = Lookup1(IP, smart, ip, order)
    /\ resolves' = Append(resolves, [smart |-> smart, ip |-> ip,
                                     name |-> IF ip \in DOMAIN IP' THEN IP'[ip][1]
                                              ELSE <<"KeyError">>])
    /\ UNCHANGED <<pc, format, use_friendly_names, _names, _pattern, _regex, entry, line,
                   result, parsed, processVars, timeVars, bandwidthVars, statusVars,
                   processed, asked, output>>

NextResolver == \E smart \in BOOLEAN, ip \in Addresses : ResolverResolve(smart, ip)

SpecResolver == Init /\ [][NextResolver]_vars

\* C28: the reverse-DNS lookup is made at most once for each address, a
\* failed lookup is cached as the address itself, and every later resolve
\* of an address returns the name its first resolve returned.
C28_OneLookupPerAddress ==
    /\ \A j, k \in 1..Len(lookups) : lookups[j] = lookups[k] => j = k
    /\ \A ip \in DOMAIN IP :
           gethostbyaddr(ip).kind = "error" => IP[ip] = <<ip, <<>>, <<ip>> >>
    /\ \A j, k \in 1..Len(resolves) :
           j < k /\ resolves[j].ip = resolves[k].ip => resolves[k].name = resolves[j].name
    /\ \A k \in 1..Len(resolves) :
           \E j \in 1..Len(lookups) : lookups[j] = resolves[k].ip

\* An address whose lookup fails was resolved twice, with one lookup.
C28_Witness ==
    /\ Len(resolves) = 2
    /\ resolves[1].ip = Chars("192.168.0.1") /\ resolves[2].ip = Chars("192.168.0.1")
    /\ resolves[2].name = Chars("192.168.0.1")
    /\ lookups = <<Chars("192.168.0.1")>>

\* A smart resolver's name was returned again by a resolver that is not.
C28_SmartNameKept ==
    /\ Len(resolves) = 2
    /\ resolves[1].smart /\ ~resolves[2].smart
    /\ resolves[1].name = Chars("googlebot") /\ resolves[2].name = Chars("googlebot")
    /\ Len(lookups) = 1

\* The entries of REGEXPS with a regexp that matches the host name.
MatchingKeys(host) == {k \in 1..Len(REGEXPS) : RegexpsMatch[k][host]}

\* The call c was made on a smart resolver, for an address whose host name
\* matches an entry of REGEXPS.
SmartCallOfKnownHost(c) ==
    /\ c.smart
    /\ gethostbyaddr(c.ip).kind = "host"
    /\ MatchingKeys(gethostbyaddr(c.ip).value[1]) # {}

\* The call c returned the short name of an entry of REGEXPS that matches
\* the host name of its address.
ReturnedShortName(c) ==
    \E k \in MatchingKeys(gethostbyaddr(c.ip).value[1]) : c.name = Chars(REGEXPS[k][1])

\* C27: a resolver constructed with smart=True returns the short REGEXPS
\* name for every address whose reverse-DNS host name matches one of that
\* name's regexps, whatever resolve calls were made before through any
\* resolver, smart or not.
C27_SmartReturnsShortName ==
    \A k \in 1..Len(resolves) : SmartCallOfKnownHost(resolves[k]) => ReturnedShortName(resolves[k])

\* What resolve does: a smart resolver returns the short name when the
\* address was first resolved through a smart resolver, and the host name
\* when it was first resolved through one that is not.
C27_FirstResolverDecides ==
    \A k \in 1..Len(resolves) :
        SmartCallOfKnownHost(resolves[k]) =>
            LET first == resolves[Min({j \in 1..k : resolves[j].ip = resolves[k].ip})]
            IN  IF first.smart THEN ReturnedShortName(resolves[k])
                ELSE resolves[k].name = gethostbyaddr(resolves[k].ip).value[1]

\* The smart resolver was asked after one that is not, and returned the
\* host name.
C27_HostNameFromCache ==
    /\ Len(resolves) = 2
    /\ ~resolves[1].smart /\ resolves[2].smart
    /\ resolves[1].ip = Chars("66.249.68.33") /\ resolves[2].ip = Chars("66.249.68.33")
    /\ resolves[2].name = Chars("crawl-66-249-68-33.googlebot.com")

(***************************************************************************)
(* StatusProcessor (processor/status.py)                                   *)
(***************************************************************************)

\* A variant of the update (for AddToSet): the set of a key already there
\* is replaced.
AddToSetReplacing(d, key, value) == (key :> {value}) @@ d

\* if key in d: d[key].add(value) else: d[key] = set([value])
AddToSet(d, key, value) ==
    IF key \in DOMAIN d THEN [d EXCEPT ![key] = @ \cup {value}] ELSE (key :> {value}) @@ d

\* sp.process(data), for the data of the line written from the entry e.
StatusProcess(e) ==
    /\ pc = "new"
    /\ Len(processed) < MaxRecords
    /\ entry' = e
    /\ request' = AddToSet(request, LogData(entry')[Chars("%r")], LogData(entry')[Chars("%>s")])
    /\ status' = AddToSet(status, LogData(entry')[Chars("%>s")], LogData(entry')[Chars("%r")])
    /\ processed' = Append(processed, entry')
    /\ result' = [kind |-> "processed"]
    /\ UNCHANGED <<pc, format, use_friendly_names, _names, _pattern, _regex, line, parsed,
                   processVars, timeVars, bandwidthVars, asked, output, resolverVars>>

\* The request lines and the statuses of the entries.
Requests == {"GET / HTTP/1.1", "GET /style.css HTTP/1.1"}
Statuses == {"200", "304", "404"}

StatusEntries ==
    {LogEntry("192.168.0.1", TimeEntry(18, 10, 25, 43, -1, 5, 0), "560", r, s) :
        r \in Requests, s \in Statuses}

NextStatus == \E e \in StatusEntries : StatusProcess(e)

SpecStatus == Init /\ [][NextStatus]_vars

\* Some processed record has the request line r and the status s.
Seen(r, s) == \E k \in 1..Len(processed) : processed[k].r = r /\ processed[k].s = s

\* C26: for every request line r and status s, s is in request[r] iff r
\* is in status[s], and that exactly when some processed record has r and
\* s; no stored set is empty.
C26_CrossTabulationsAgree ==
    /\ \A r \in {Chars(x) : x \in Requests} \cup DOMAIN request :
       \A s \in {Chars(x) : x \in Statuses} \cup DOMAIN status :
           /\ (r \in DOMAIN request /\ s \in request[r]) <=> Seen(r, s)
           /\ (s \in DOMAIN status /\ r \in status[s]) <=> Seen(r, s)
    /\ \A r \in DOMAIN request : request[r] # {}
    /\ \A s \in DOMAIN status : status[s] # {}

\* One request line was seen with two statuses, and one status with two
\* request lines.
C26_Witness ==
    /\ Len(processed) = 3
    /\ Chars("GET / HTTP/1.1") \in DOMAIN request
    /\ request[Chars("GET / HTTP/1.1")] = {Chars("200"), Chars("404")}
    /\ Chars("200") \in DOMAIN status
    /\ status[Chars("200")] = {Chars("GET / HTTP/1.1"), Chars("GET /style.css HTTP/1.1")}

(***************************************************************************)
(* IPBandwidthProcessor (processor/bandwidth.py)                           *)
(***************************************************************************)

\* d.get(key, 0)
GetOrZero(d, key) == IF key \in DOMAIN d THEN d[key] ELSE 0

\* IPBandwidthProcessor.process(data), after BandwidthProcessor.process
\* returned: a last_bytes that is neither None nor 0 is added to the bytes
\* of data['%h'].
IPUpdate(data) ==
    IF last_bytes' # NoValue /\ last_bytes'.value # 0
    THEN ip_bytes' = (data[Chars("%h")] :> last_bytes'.value + GetOrZero(ip_bytes, data[Chars("%h")]))
                         @@ ip_bytes
    ELSE ip_bytes' = ip_bytes

\* The number of records a specification gives to an IPBandwidthProcessor.
MaxIPRecords == 2

\* ipbwp.process(data), for the data of the line written from the entry e.
IPProcess(e) ==
    /\ pc = "new"
    /\ Len(processed) < MaxIPRecords
    /\ entry' = e
    /\ \E time \in {ParseTime(LogData(entry')[Chars("%t")])} :
           IF time.kind = "error"
           THEN /\ result' = time
                /\ UNCHANGED <<timeVars, bandwidthVars, processed>>
           ELSE /\ result' = [kind |-> "processed"]
                /\ LogTimeUpdate(time)
                /\ BandwidthUpdate(LogData(entry'))
                /\ IPUpdate(LogData(entry'))
                /\ processed' = Append(processed, entry')
    /\ UNCHANGED <<pc, format, use_friendly_names, _names, _pattern, _regex, line, parsed,
                   processVars, statusVars, asked, output, resolverVars>>

\* The characters of the names, in the order of their codes.
CodeOrder == Chars("-.0123456789abcdefghijklmnopqrstuvwxyz")

\* ord(c), up to where the codes start.
Ord(c) == CHOOSE i \in 1..Len(CodeOrder) : CodeOrder[i] = c

\* a < b for two strings.
StrLess(a, b) ==
    \E i \in 1..Len(b) :
        /\ \A j \in 1..(i - 1) : j <= Len(a) /\ a[j] = b[j]
        /\ i > Len(a) \/ Ord(a[i]) < Ord(b[i])

\* x < y for two bandwidths, each a fraction with a positive denominator.
BandwidthLess(x, y) == x.num * y.den < y.num * x.den

\* (bw, ip) < (bw2, ip2) for two of the tuples ip_bandwidth sorts.
PairLess(p, q) == BandwidthLess(p[2], q[2]) \/ (~BandwidthLess(q[2], p[2]) /\ StrLess(p[1], q[1]))

\* sorted(...): the pairs of S in increasing order.
RECURSIVE Sorted(_)
Sorted(S) ==
    IF S = {} THEN <<>>
    ELSE LET least == CHOOSE p \in S : \A q \in S \ {p} : PairLess(p, q)
         IN  <<least>> \o Sorted(S \ {least})

\* ipbwp.ip_bandwidth(sort_by_bandwidth=True, scale=scale) on the
\* dictionary d of bytes: the (name, bandwidth) pairs in increasing order
\* of bandwidth, and of name where the bandwidths are equal.
ip_bandwidth(d, scale) ==
    Sorted({<<k, bandwidth(scale, [kind |-> "int", value |-> d[k]])>> : k \in DOMAIN d})

\* The dictionary without the key.
Pop(d, key) == [k \in DOMAIN d \ {key} |-> d[k]]

\* A variant of the move (for Merge): the bytes the new key already had
\* are dropped.
MergeOverwrite(d, ip, rip) ==
    IF rip = ip THEN d ELSE (rip :> d[ip]) @@ Pop(d, ip)

\* if rip != ip: b = ip_bytes.pop(ip); ip_bytes[rip] = b + ip_bytes.get(rip, 0)
Merge(d, ip, rip) ==
    IF rip = ip THEN d ELSE (rip :> d[ip] + GetOrZero(Pop(d, ip), rip)) @@ Pop(d, ip)

\* The names in the (ip, name) pairs of a sequence.
NamesOf(pairs) == {pairs[k][2] : k \in 1..Len(pairs)}

\* The loop of resolve from the k-th pair of ip_bw downwards: st holds
\* ip_bytes, remaining, the (ip, name) pairs the resolver answered so far
\* and whether ip_bytes[ip] raised.
RECURSIVE ResolveLoop(_, _, _, _, _, _)
ResolveLoop(ip_bw, k, st, resolver, top, minimum_total) ==
    IF k = 0 THEN st
    ELSE IF top # NoValue /\ Cardinality(NamesOf(st.answers)) > top.value THEN st
    ELSE IF minimum_total # NoValue
            /\ st.remaining * minimum_total.den < minimum_total.num * bytes THEN st
    ELSE LET ip == ip_bw[k][1]
         IN  IF ip \notin DOMAIN st.ip_bytes THEN [st EXCEPT !.raised = TRUE]
             ELSE ResolveLoop(ip_bw, k - 1,
                              [ip_bytes |-> Merge(st.ip_bytes, ip, resolver[ip]),
                               remaining |-> st.remaining - st.ip_bytes[ip],
                               answers |-> Append(st.answers, <<ip, resolver[ip]>>),
                               raised |-> FALSE],
                              resolver, top, minimum_total)

\* ipbwp.resolve(resolver, top, minimum_total), where resolver.resolve(ip)
\* returns resolver[ip].
Resolve(resolver, top, minimum_total) ==
    /\ pc = "new"
    /\ \E ip_bw \in {ip_bandwidth(ip_bytes, "kB/s")} :
       \E st \in {ResolveLoop(ip_bw, Len(ip_bw),
                              [ip_bytes |-> ip_bytes, remaining |-> bytes, answers |-> <<>>,
                               raised |-> FALSE],
                              resolver, top, minimum_total)} :
           /\ ip_bytes' = st.ip_bytes
           /\ asked' = <<[top |-> top, minimum_total |-> minimum_total, ip_bw |-> ip_bw,
                          answers |-> st.answers]>>
           /\ result' = IF st.raised THEN [kind |-> "error", error |-> "KeyError"]
                        ELSE [kind |-> "resolved"]
    /\ UNCHANGED <<pc, format, use_friendly_names, _names, _pattern, _regex, entry, line,
                   parsed, processVars, timeVars, bytes, last_bytes, statusVars, processed,
                   output, resolverVars>>

\* The clients of the entries, and the names resolvers give them.
Clients == {"10.0.0.1", "10.0.0.2", "10.0.0.3"}
ClientNames == {"a.example", "b.example", "c.example", "testbot"}

\* A resolver that answers name for ip, and every other string with
\* itself (as Resolver does for an address whose lookup fails).
Answering(pairs) ==
    [s \in {Chars(x) : x \in Clients \cup ClientNames} |->
        IF \E k \in 1..Len(pairs) : Chars(pairs[k][1]) = s
        THEN Chars(pairs[CHOOSE k \in 1..Len(pairs) : Chars(pairs[k][1]) = s][2])
        ELSE s]

\* Resolvers: one name for each client, one name for all clients, and one
\* that names the first client by the second's address.
Resolvers ==
    {Answering(<< <<"10.0.0.1", "a.example">>, <<"10.0.0.2", "b.example">>,
                  <<"10.0.0.3", "c.example">> >>),
     Answering(<< <<"10.0.0.1", "testbot">>, <<"10.0.0.2", "testbot">>,
                  <<"10.0.0.3", "testbot">> >>),
     Answering(<< <<"10.0.0.1", "10.0.0.2">> >>)}

\* The arguments top and minimum_total of resolve.
Tops == {NoValue, [kind |-> "int", value |-> 1], [kind |-> "int", value |-> 2]}
MinimumTotals == {NoValue, [kind |-> "float", num |-> 1, den |-> 2]}

\* Entries of three clients: different sizes, equal sizes, and no bytes.
IPEntries ==
    {LogEntry("10.0.0.1", TimeEntry(18, 10, 25, 43, -1, 5, 0), "561", "GET / HTTP/1.1", "200"),
     LogEntry("10.0.0.2", TimeEntry(18, 10, 25, 58, -1, 5, 0), "24", "GET / HTTP/1.1", "200"),
     LogEntry("10.0.0.3", TimeEntry(18, 10, 25, 58, -1, 5, 0), "24", "GET / HTTP/1.1", "200"),
     LogEntry("10.0.0.1", TimeEntry(18, 10, 25, 58, -1, 5, 0), "0", "GET / HTTP/1.1", "304")}

NextIPBandwidth ==
    \/ \E e \in IPEntries : IPProcess(e)
    \/ \E resolver \in Resolvers, top \in Tops, minimum_total \in MinimumTotals :
           Resolve(resolver, top, minimum_total)

SpecIPBandwidth == Init /\ [][NextIPBandwidth]_vars

\* The sum of the values of the dictionary d.
RECURSIVE SumOfValues(_)
SumOfValues(d) ==
    IF DOMAIN d = {} THEN 0
    ELSE LET k == CHOOSE k \in DOMAIN d : TRUE IN d[k] + SumOfValues(Pop(d, k))

\* C25: after any sequence of process and resolve calls, with any answers
\* of the resolver and any top and minimum_total, the values of ip_bytes
\* add up to bytes, and resolve raised no missing-key error.
C25_BytesConserved ==
    /\ SumOfValues(ip_bytes) = bytes
    /\ result.kind = "error" => result.error # "KeyError"

\* Two clients were merged under one name, which holds the bytes of both.
C25_Witness ==
    /\ Len(processed) = 2
    /\ bytes = 585
    /\ asked # <<>>
    /\ Len(asked[1].answers) = 2
    /\ DOMAIN ip_bytes = {Chars("testbot")}
    /\ ip_bytes[Chars("testbot")] = 585

\* The first client took the second's address for its name, and its bytes
\* were added to the second's.
C25_MovedToExistingKey ==
    /\ asked # <<>>
    /\ asked[1].answers = << <<Chars("10.0.0.1"), Chars("10.0.0.2")>>,
                             <<Chars("10.0.0.2"), Chars("10.0.0.2")>> >>
    /\ DOMAIN ip_bytes = {Chars("10.0.0.2")}
    /\ ip_bytes[Chars("10.0.0.2")] = 585

\* C23: resolve(resolver, top=N) stops once N distinct names have been
\* obtained: the names the resolver returned during one call are never
\* more than N.
C23_AtMostTopNames ==
    \A k \in 1..Len(asked) :
        asked[k].top # NoValue => Cardinality(NamesOf(asked[k].answers)) <= asked[k].top.value

\* What resolve does: it stops before an entry once more than N distinct
\* names have been obtained, so a call returns at most N + 1 names.
C23_AtMostTopPlusOneNames ==
    \A k \in 1..Len(asked) :
        asked[k].top # NoValue => Cardinality(NamesOf(asked[k].answers)) <= asked[k].top.value + 1

\* resolve visits the entries in decreasing order of bandwidth.
C23_VisitedInDecreasingOrder ==
    \A k \in 1..Len(asked) :
        LET ip_bw == asked[k].ip_bw
            n     == Len(asked[k].answers)
        IN  /\ n <= Len(ip_bw)
            /\ \A j \in 1..n :
                   /\ asked[k].answers[j][1] = ip_bw[Len(ip_bw) + 1 - j][1]
                   /\ j > 1 => ~BandwidthLess(ip_bw[Len(ip_bw) + 2 - j][2],
                                              ip_bw[Len(ip_bw) + 1 - j][2])

\* resolve(resolver, top=1) on two clients asked for both and obtained
\* two names.
C23_TwoNamesForTopOne ==
    /\ asked # <<>>
    /\ asked[1].top = [kind |-> "int", value |-> 1]
    /\ asked[1].minimum_total = NoValue
    /\ NamesOf(asked[1].answers) = {Chars("a.example"), Chars("b.example")}

(***************************************************************************)
(* display_ip_bandwidth (apachelog-process.py)                             *)
(***************************************************************************)

\* x - y for two bandwidths: they are fractions of the same span.
BandwidthMinus(x, y) ==
    IF x.den = y.den THEN [num |-> x.num - y.num, den |-> x.den]
    ELSE [num |-> x.num * y.den - y.num * x.den, den |-> x.den * y.den]

\* A variant of the slice (for TopSlice): the last top elements, last
\* first.
TopSliceInclusive(list, top) ==
    LET count == IF top <= Len(list) THEN top ELSE Len(list)
    IN  [j \in 1..count |-> list[Len(list) + 1 - j]]

\* list[-1:-top:-1]: from the last element down to, and without, the one
\* at -top (at 0 when top is 0; to the first when top exceeds the length).
TopSlice(list, top) ==
    LET stop  == IF top = 0 THEN 0 ELSE IF top <= Len(list) THEN Len(list) - top ELSE -1
        count == Len(list) - 1 - stop
    IN  [j \in 1..count |-> list[Len(list) + 1 - j]]

\* The cache after resolver.resolve was called for the first k addresses
\* of ips.
RECURSIVE LookupAll(_, _, _, _, _)
LookupAll(cache, smart, ips, k, order) ==
    IF k = 0 THEN cache
    ELSE LET before == LookupAll(cache, smart, ips, k - 1, order)
         IN  IF ips[k] \in DOMAIN before THEN before
             ELSE Lookup1(before, smart, ips[k], order)

\* resolver.ips(name): the addresses cached under the name.
ips(cache, name) ==
    UNION {{cache[ip][3][k] : k \in 1..Len(cache[ip][3])} :
               ip \in {a \in DOMAIN cache : cache[a][1] = name}}

\* The loop of display_ip_bandwidth over the first k entries of the
\* slice: the lines written, each the bandwidth, the name and (with a
\* resolver) the other addresses of the name, and what remains.
RECURSIVE DisplayLoop(_, _, _, _, _)
DisplayLoop(entries, k, total, cache, resolving) ==
    IF k = 0 THEN [lines |-> <<>>, remaining |-> total]
    ELSE LET before == DisplayLoop(entries, k - 1, total, cache, resolving)
             name   == entries[k][1]
             bw     == entries[k][2]
         IN  [lines |-> Append(before.lines,
                               IF resolving THEN <<bw, name, ips(cache, name) \ {name}>>
                               ELSE <<bw, name>>),
              remaining |-> BandwidthMinus(before.remaining, bw)]

\* display_ip_bandwidth(stream, processor, resolver, args) with args.scale
\* and args.top, where resolver is Resolver(smart=True) if resolving and
\* None if not, and REGEXPS.items() iterates in order.
Display(scale, top, resolving, order) ==
    /\ pc = "new"
    /\ output = <<>>
    /\ processed # <<>>
    /\ \E ip_bw \in {ip_bandwidth(ip_bytes, "kB/s")} :
       \E keys \in {[k \in 1..Len(ip_bw) |-> ip_bw[k][1]]} :
       \E cache \in {IF resolving THEN LookupAll(IP, TRUE, keys, Len(keys), order) ELSE IP} :
       \E st \in {IF resolving
                  THEN ResolveLoop(ip_bw, Len(ip_bw),
                                   [ip_bytes |-> ip_bytes, remaining |-> bytes,
                                    answers |-> <<>>, raised |-> FALSE],
                                   [ip \in DOMAIN ip_bytes |-> cache[ip][1]],
                                   [kind |-> "int", value |-> top], NoValue)
                  ELSE [ip_bytes |-> ip_bytes, answers |-> <<>>, raised |-> FALSE]} :
           /\ ip_bytes' = st.ip_bytes
           /\ asked' = IF resolving
                       THEN <<[top |-> [kind |-> "int", value |-> top],
                               minimum_total |-> NoValue, ip_bw |-> ip_bw,
                               answers |-> st.answers]>>
                       ELSE asked
           /\ IP' = LookupAll(IP, TRUE, [k \in 1..Len(st.answers) |-> st.answers[k][1]],
                              Len(st.answers), order)
           /\ lookups' = lookups \o [k \in 1..Len(st.answers) |-> st.answers[k][1]]
           /\ resolves' = resolves \o [k \in 1..Len(st.answers) |->
                                          [smart |-> TRUE, ip |-> st.answers[k][1],
                                           name |-> st.answers[k][2]]]
           /\ IF st.raised
              THEN /\ output' = output
                   /\ result' = [kind |-> "error", error |-> "KeyError"]
              ELSE \E shown \in {DisplayLoop(TopSlice(ip_bandwidth(ip_bytes', scale), top),
                                             Len(TopSlice(ip_bandwidth(ip_bytes', scale), top)),
                                             bandwidth(scale, NoValue), IP', resolving)} :
                       /\ output' = Append(shown.lines, <<shown.remaining, Chars("REMAINING")>>)
                       /\ result' = [kind |-> "displayed", scale |-> scale, top |-> top]
    /\ UNCHANGED <<pc, format, use_friendly_names, _names, _pattern, _regex, entry, line,
                   parsed, processVars, timeVars, bytes, last_bytes, statusVars, processed>>

\* Entries of three clients with different sizes.
DisplayEntries ==
    {LogEntry("66.249.68.33", TimeEntry(18, 10, 25, 43, -1, 5, 0), "561", "GET / HTTP/1.1", "200"),
     LogEntry("198.41.0.4", TimeEntry(18, 10, 25, 58, -1, 5, 0), "24", "GET / HTTP/1.1", "200"),
     LogEntry("192.168.0.1", TimeEntry(18, 10, 25, 58, -1, 5, 0), "100", "GET / HTTP/1.1", "200")}

\* The values of the option --top.
DisplayTops == {1, 2, 3}

NextDisplay ==
    \/ \E e \in DisplayEntries : IPProcess(e)
    \/ \E scale \in {"B/s", "kB/s"}, top \in DisplayTops : Display(scale, top, FALSE, <<>>)
    \/ \E scale \in {"B/s", "kB/s"}, top \in DisplayTops, order \in ItemOrders :
           Display(scale, top, TRUE, order)

SpecDisplay == Init /\ [][NextDisplay]_vars

\* The sum of the bandwidths in the first n lines of the output, taken
\* from the fraction total.
RECURSIVE LessPrinted(_, _)
LessPrinted(total, n) ==
    IF n = 0 THEN total ELSE BandwidthMinus(LessPrinted(total, n - 1), output[n][1])

\* The lines before the REMAINING line are the n highest entries, in
\* decreasing order of bandwidth, and the REMAINING line holds the total
\* less their sum.
PrintedHighest(n) ==
    LET all == ip_bandwidth(ip_bytes, result.scale)
    IN  /\ Len(output) = n + 1
        /\ \A j \in 1..n : /\ output[j][1] = all[Len(all) + 1 - j][2]
                           /\ output[j][2] = all[Len(all) + 1 - j][1]
        /\ output[n + 1] = <<LessPrinted(bandwidth(result.scale, NoValue), n), Chars("REMAINING")>>

\* C24: with the option top = N, display_ip_bandwidth prints the N
\* highest-bandwidth entries (all of them when there are fewer), one per
\* line in decreasing order, then one REMAINING line with the total
\* bandwidth less the sum of the printed ones.
C24_TopEntriesPrinted ==
    result.kind = "displayed" =>
        PrintedHighest(IF result.top <= Cardinality(DOMAIN ip_bytes)
                       THEN result.top ELSE Cardinality(DOMAIN ip_bytes))

\* What display_ip_bandwidth does: it prints the N - 1 highest entries
\* when there are at least N, and all of them when there are fewer.
C24_OneFewerPrinted ==
    result.kind = "displayed" =>
        PrintedHighest(IF result.top <= Cardinality(DOMAIN ip_bytes)
                       THEN result.top - 1 ELSE Cardinality(DOMAIN ip_bytes))

\* Two clients and top = 2 without a resolver: one entry is printed, and
\* the other is left in REMAINING.
C24_OneOfTwoPrinted ==
    /\ result.kind = "displayed" /\ result.top = 2 /\ result.scale = "B/s"
    /\ asked = <<>>
    /\ DOMAIN ip_bytes = {Chars("66.249.68.33"), Chars("198.41.0.4")}
    /\ output = << <<[num |-> 561, den |-> 15], Chars("66.249.68.33")>>,
                   <<[num |-> 24, den |-> 15], Chars("REMAINING")>> >>

\* With a resolver, the line of a short name lists the address behind it.
C24_ResolvedNamePrinted ==
    /\ result.kind = "displayed" /\ result.top = 2
    /\ Len(output) = 2
    /\ output[1][2] = Chars("googlebot")
    /\ Len(output[1]) = 3
    /\ output[1][3] = {Chars("66.249.68.33")}

(***************************************************************************)
(* SpecSortable: parse_date is called on two request times.                *)
(***************************************************************************)

\* parse_date(date) called on the request times written from e1 and e2.
CallParseDates(e1, e2) ==
    /\ pc = "new"
    /\ result = NoResult
    /\ entry' = <<e1, e2>>
    /\ line' = <<WriteTimestamp(entry'[1]), WriteTimestamp(entry'[2])>>
    /\ result' = [kind |-> "parse_dates", first |-> ParseDate(line'[1]),
                  second |-> ParseDate(line'[2])]
    /\ UNCHANGED <<pc, format, use_friendly_names, _names, _pattern, _regex, parsed,
                   processVars, aggVars>>

\* Request times of every month of two years, early and late in the
\* month, before and after ten o'clock, and some that differ in the
\* minute, the second or the offset only.
SortableEntries ==
    {[year |-> y, month |-> m, day |-> d, hour |-> h, minute |-> 51, second |-> 44,
      sign |-> -1, hh |-> 5, mm |-> 0] :
        y \in {2006, 2012}, m \in 1..12, d \in {5, 28}, h \in {9, 10}}
    \cup {[year |-> 2006, month |-> 12, day |-> 5, hour |-> 10, minute |-> mi, second |-> sec,
           sign |-> o[1], hh |-> o[2], mm |-> o[3]] :
              mi \in {0, 51}, sec \in {44, 59}, o \in {<<-1, 5, 0>>, <<1, 5, 30>>}}

NextSortable == \E e1, e2 \in SortableEntries : CallParseDates(e1, e2)

SpecSortable == Init /\ [][NextSortable]_vars

\* The date and time of day of the entry e as written, whatever its
\* offset.
WrittenInstant(e) == Instant(e.year, e.month, e.day, e.hour, e.minute, e.second, 0)

\* C30: for two well-formed request times with the same offset, the first
\* is earlier than, equal to or later than the second exactly when the
\* numeric string parse_date returns for it is lexicographically smaller
\* than, equal to or greater than the other's.
C30_TimestampsSortAsTimes ==
    (result.kind = "parse_dates"
        /\ <<entry[1].sign, entry[1].hh, entry[1].mm>> = <<entry[2].sign, entry[2].hh, entry[2].mm>>)
    => /\ result.first.kind = "date" /\ result.second.kind = "date"
       /\ Earlier(WrittenInstant(entry[1]), WrittenInstant(entry[2]))
              <=> StrLess(result.first.timestamp, result.second.timestamp)
       /\ WrittenInstant(entry[1]) = WrittenInstant(entry[2])
              <=> result.first.timestamp = result.second.timestamp
       /\ Earlier(WrittenInstant(entry[2]), WrittenInstant(entry[1]))
              <=> StrLess(result.second.timestamp, result.first.timestamp)

\* 28 August at 9 comes after 5 April at 10: the month decides, before
\* the day and the hour, and 'Apr' and 'Aug' are compared as 04 and 08.
C30_Witness ==
    /\ result.kind = "parse_dates"
    /\ result.first.kind = "date" /\ result.second.kind = "date"
    /\ result.first.timestamp = Chars("20120828095144")
    /\ result.second.timestamp = Chars("20120405105144")
    /\ result.first.offset = result.second.offset
    /\ StrLess(result.second.timestamp, result.first.timestamp)

(***************************************************************************)
(* SpecCompile: the constructor is given format strings of every shape:    *)
(* empty, blank, of tokens that are no directives, and very long.          *)
(***************************************************************************)

\* Tokens that are directives, parts of directives, or text that would be
\* regular-expression syntax.
CompileTokens ==
    {Chars("%h"), Chars("%"), Chars("%{"), Chars("("), Chars(")"), Chars("["), Chars("\\"),
     Chars("*"), Chars("?"), Chars("\\\""), Chars("\\\"("), Chars("%t)")}

\* The format of n directives %h.
LongFormat(n) ==
    [i \in 1..(3 * n - 1) |-> IF i % 3 = 1 THEN "%" ELSE IF i % 3 = 2 THEN "h" ELSE " "]

\* The lengths, in directives, of the long formats.
LongLengths == {99, 100}

CompileFormats ==
    {<<>>, Chars(" "), Chars("\t \t")} \cup Written(CompileTokens, {<<" ">>}, MaxTokens)
        \cup {LongFormat(n) : n \in LongLengths}

NextCompile == \E fmt \in CompileFormats, friendly \in BOOLEAN : Construct(fmt, friendly)

SpecCompile == Init /\ [][NextCompile]_vars

\* C29, as stated: for every format string, empty, blank and malformed
\* ones included, constructing the parser succeeds: the compile-error
\* branch is never taken.
C29_CompilationCannotFail == pc # "new" => pc = "ready"

\* C29, amended: for every format string of fewer than 100 elements,
\* empty, blank and malformed ones included, constructing the parser
\* succeeds and yields a matcher with one group for each element.
C29_UnderHundredElementsCompile ==
    (pc # "new" /\ Len(Elements(format)) < 100) =>
        /\ pc = "ready"
        /\ _regex.ok
        /\ _regex.groups = Len(Elements(format))
        /\ Len(_names) = Len(Elements(format))

\* A format of 99 elements was compiled.
C29_Witness ==
    /\ pc = "ready"
    /\ Len(Elements(format)) = 99
    /\ _regex.groups = 99

\* A format of 100 elements was refused.
C29_HundredElementsRefused == pc = "failed" /\ Len(_names) = 100

\* Formats of no directive at all were compiled: the empty format, and
\* one of an open parenthesis and an open bracket.
C29_EmptyFormatCompiled == pc = "ready" /\ format = <<>> /\ _pattern = Chars("^(\\S*)$")
C29_MalformedFormatCompiled ==
    pc = "ready" /\ format = Chars("( [") /\ _pattern = Chars("^(\\S*) (\\S*)$")

====
